---- MODULE Spec2Model ----
(***************************************************************************)
(* Shellscribe: the documentation extraction engine (parse_shell_file and  *)
(* the classifiers, tag extractor, continuation collector and tag grammars *)
(* it calls), modelled as a state machine that reads a file line by line.  *)
(*                                                                         *)
(* A C string is a sequence of one-character strings; the null pointer is  *)
(* NULL, which is not a string.  A file is a sequence of lines, each       *)
(* terminated by a newline in the file (fgets returns the line with it).   *)
(***************************************************************************)
EXTENDS Integers, Sequences, FiniteSets, TLC

NULL == <<"NULL">>
NUL == "NUL"

\* ------------------------------------------------------------------ bounds
MaxLines == 3
MaxBlocks == 3

\* --------------------------------------------------------------- <ctype.h>
UpperChars == <<"A", "B", "C", "D", "E", "F", "G", "H", "I", "J", "K", "L", "M",
                "N", "O", "P", "Q", "R", "S", "T", "U", "V", "W", "X", "Y", "Z">>
LowerChars == <<"a", "b", "c", "d", "e", "f", "g", "h", "i", "j", "k", "l", "m",
                "n", "o", "p", "q", "r", "s", "t", "u", "v", "w", "x", "y", "z">>
DigitChars == {"0", "1", "2", "3", "4", "5", "6", "7", "8", "9"}

isspace(c) == c \in {" ", "\t", "\n", "\r", "\f"}
isalnum(c) == \/ c \in DigitChars
              \/ \E i \in 1..26 : c = UpperChars[i] \/ c = LowerChars[i]
tolower(c) == IF \E i \in 1..26 : c = UpperChars[i]
              THEN LowerChars[CHOOSE i \in 1..26 : c = UpperChars[i]]
              ELSE c

\* -------------------------------------------------------------- <string.h>
\* *(s + i - 1): the character at 1-based index i, the terminator past the end
At(s, i) == IF i >= 1 /\ i <= Len(s) THEN s[i] ELSE NUL
\* the string starting at pointer s + n
Drop(s, n) == SubSeq(s, n + 1, Len(s))
Take(s, n) == SubSeq(s, 1, n)
\* strncmp(s, p, strlen(p)) == 0
HasPrefix(s, p) == Len(s) >= Len(p) /\ SubSeq(s, 1, Len(p)) = p
\* strncasecmp(s, p, strlen(p)) == 0
HasPrefixNoCase(s, p) ==
    /\ Len(s) >= Len(p)
    /\ \A i \in 1..Len(p) : tolower(s[i]) = tolower(p[i])
\* strstr(s, sub): 1-based index of the first occurrence, 0 when absent
strstr(s, sub) ==
    LET hits == {i \in 1..Len(s) : HasPrefix(Drop(s, i - 1), sub)}
    IN IF hits = {} THEN 0 ELSE CHOOSE i \in hits : \A j \in hits : i <= j
\* strchr(s, c)
strchr(s, c) == strstr(s, <<c>>)
\* number of leading characters of s that are whitespace
SpanSpace(s) ==
    CHOOSE n \in 0..Len(s) : /\ \A i \in 1..n : isspace(s[i])
                             /\ ~isspace(At(s, n + 1))
\* number of leading characters of s that are neither whitespace nor NUL
SpanNonSpace(s) ==
    CHOOSE n \in 0..Len(s) : /\ \A i \in 1..n : ~isspace(s[i])
                             /\ (n = Len(s) \/ isspace(s[n + 1]))
SkipSpace(s) == Drop(s, SpanSpace(s))
string_concat(str1, str2) ==
    IF str1 = NULL THEN str2 ELSE IF str2 = NULL THEN str1 ELSE str1 \o str2
\* fgets result with a trailing '\n' replaced by the terminator
Chomp(s) == IF Len(s) > 0 /\ s[Len(s)] = "\n" THEN Take(s, Len(s) - 1) ELSE s

\* ------------------------------------------------------- string literals
\* the tag names the dispatchers compare with strcmp
TagName ==
    [function |-> <<"f", "u", "n", "c", "t", "i", "o", "n">>,
     brief |-> <<"b", "r", "i", "e", "f">>,
     description |-> <<"d", "e", "s", "c", "r", "i", "p", "t", "i", "o", "n">>,
     arg |-> <<"a", "r", "g">>,
     argument |-> <<"a", "r", "g", "u", "m", "e", "n", "t">>,
     param |-> <<"p", "a", "r", "a", "m">>,
     return |-> <<"r", "e", "t", "u", "r", "n">>,
     returns |-> <<"r", "e", "t", "u", "r", "n", "s">>,
     exitcode |-> <<"e", "x", "i", "t", "c", "o", "d", "e">>,
     example |-> <<"e", "x", "a", "m", "p", "l", "e">>,
     stdout |-> <<"s", "t", "d", "o", "u", "t">>,
     stderr |-> <<"s", "t", "d", "e", "r", "r">>,
     internal |-> <<"i", "n", "t", "e", "r", "n", "a", "l">>,
     note |-> <<"n", "o", "t", "e">>,
     warning |-> <<"w", "a", "r", "n", "i", "n", "g">>,
     error |-> <<"e", "r", "r", "o", "r">>,
     tip |-> <<"t", "i", "p">>,
     important |-> <<"i", "m", "p", "o", "r", "t", "a", "n", "t">>,
     info |-> <<"i", "n", "f", "o">>,
     danger |-> <<"d", "a", "n", "g", "e", "r">>,
     hint |-> <<"h", "i", "n", "t">>,
     caution |-> <<"c", "a", "u", "t", "i", "o", "n">>,
     alert |-> <<"a", "l", "e", "r", "t">>,
     file |-> <<"f", "i", "l", "e">>,
     version |-> <<"v", "e", "r", "s", "i", "o", "n">>,
     author |-> <<"a", "u", "t", "h", "o", "r">>,
     license |-> <<"l", "i", "c", "e", "n", "s", "e">>,
     copyright |-> <<"c", "o", "p", "y", "r", "i", "g", "h", "t">>,
     since |-> <<"s", "i", "n", "c", "e">>,
     package |-> <<"p", "a", "c", "k", "a", "g", "e">>,
     module |-> <<"m", "o", "d", "u", "l", "e">>,
     link |-> <<"l", "i", "n", "k">>,
     repo |-> <<"r", "e", "p", "o">>,
     see |-> <<"s", "e", "e">>,
     env |-> <<"e", "n", "v">>,
     skip |-> <<"s", "k", "i", "p">>]
\* the markers is_special_annotation looks for
Annotation ==
    [shellcheck |-> <<"s", "h", "e", "l", "l", "c", "h", "e", "c", "k">>,
     disable |-> <<"d", "i", "s", "a", "b", "l", "e">>,
     TODO |-> <<"T", "O", "D", "O">>,
     FIXME |-> <<"F", "I", "X", "M", "E">>,
     XXX |-> <<"X", "X", "X">>,
     HACK |-> <<"H", "A", "C", "K">>]
\* the alert types get_alert_type returns
AlertType ==
    [NOTE |-> <<"N", "O", "T", "E">>,
     TIP |-> <<"T", "I", "P">>,
     IMPORTANT |-> <<"I", "M", "P", "O", "R", "T", "A", "N", "T">>,
     WARNING |-> <<"W", "A", "R", "N", "I", "N", "G">>,
     CAUTION |-> <<"C", "A", "U", "T", "I", "O", "N">>,
     INFO |-> <<"I", "N", "F", "O">>,
     DANGER |-> <<"D", "A", "N", "G", "E", "R">>]
\* the keyword of a function declaration
s_function == <<"f", "u", "n", "c", "t", "i", "o", "n">>
\* the word a shellcheck directive starts with
s_shellcheck == <<"s", "h", "e", "l", "l", "c", "h", "e", "c", "k">>
s_hash_at == <<"#", " ", "@">>
s_shebang == <<"#", "!">>
s_parens == <<"(", ")">>
s_disable_eq == <<"d", "i", "s", "a", "b", "l", "e", "=">>
s_enable_eq == <<"e", "n", "a", "b", "l", "e", "=">>
s_nl == <<"\n">>
s_nlnl == <<"\n", "\n">>
s_empty == <<>>

\* ------------------------------------------------------- line classifier
is_comment_line(line) == At(SkipSpace(line), 1) = "#"

static_is_tag_line(line) == HasPrefix(SkipSpace(line), s_hash_at)

is_tag_line(line) == static_is_tag_line(line)

\* text after the name token that follows the first '@' (tag.c)
TagNameLen(afterAt) ==
    CHOOSE n \in 0..Len(afterAt) :
        /\ \A i \in 1..n : ~isspace(afterAt[i]) /\ afterAt[i] # ":"
        /\ (n = Len(afterAt) \/ isspace(afterAt[n + 1]) \/ afterAt[n + 1] = ":")

extract_tag_name(line) ==
    LET at == strstr(line, <<"@">>)
    IN IF at = 0 THEN NULL
       ELSE LET rest == Drop(line, at) IN Take(rest, TagNameLen(rest))

extract_tag_content(line) ==
    LET at == strstr(line, <<"@">>)
    IN IF at = 0 THEN NULL
       ELSE LET rest == Drop(line, at)
                afterName == Drop(rest, TagNameLen(rest))
                afterColon == IF At(afterName, 1) = ":" THEN Drop(afterName, 1)
                              ELSE afterName
            IN SkipSpace(afterColon)

is_shellcheck_directive(line) ==
    LET p == SkipSpace(line)
    IN /\ At(p, 1) = "#"
       /\ HasPrefixNoCase(SkipSpace(Drop(p, 1)), s_shellcheck)

is_special_annotation(line) ==
    \E k \in {Annotation.shellcheck, Annotation.disable, Annotation.TODO, Annotation.FIXME, Annotation.XXX, Annotation.HACK} :
        strstr(line, k) # 0

is_function_declaration(line) ==
    LET pos == SkipSpace(line)
        parenthesis == strchr(pos, "(")
    IN IF HasPrefix(pos, s_function) /\ isspace(At(pos, 9)) THEN TRUE
       ELSE IF parenthesis > 1
       THEN IF \E i \in 1..(parenthesis - 1) : ~isalnum(pos[i]) /\ pos[i] # "_"
            THEN FALSE
            ELSE LET fromParen == Drop(pos, parenthesis - 1)
                     closing == strchr(fromParen, ")")
                 IN IF closing = 0 THEN FALSE
                    ELSE LET fromClosing == Drop(fromParen, closing - 1)
                             brace == strchr(fromClosing, "{")
                         IN IF brace = 0 THEN FALSE
                            ELSE \A i \in 2..(brace - 1) : isspace(fromClosing[i])
       ELSE FALSE

\* trailing whitespace removed (function.c:114-117)
RECURSIVE TrimRight(_)
TrimRight(s) == IF Len(s) > 0 /\ isspace(s[Len(s)])
                THEN TrimRight(Take(s, Len(s) - 1)) ELSE s

extract_function_name(line) ==
    IF ~is_function_declaration(line) THEN NULL
    ELSE LET p0 == SkipSpace(line)
             pos == IF HasPrefix(p0, s_function) /\ isspace(At(p0, 9))
                    THEN SkipSpace(Drop(p0, 8)) ELSE p0
             end == strchr(pos, "(")
         IN IF end > 1 THEN TrimRight(Take(pos, end - 1)) ELSE NULL

\* ------------------------------------------------------------- Docblock
\* init_docblock: every pointer NULL, every counter zero (a counted array is
\* the sequence of its entries, its counter the length of that sequence)
init_docblock ==
    [file_name |-> NULL, brief |-> NULL, description |-> NULL,
     version |-> NULL, author |-> NULL, author_contact |-> NULL,
     license |-> NULL, copyright |-> NULL, interpreter |-> NULL,
     function_name |-> NULL, function_description |-> NULL,
     function_brief |-> NULL, return_desc |-> NULL,
     arguments |-> <<>>, params |-> <<>>, exitcodes |-> <<>>,
     stdout_doc |-> NULL, stderr_doc |-> NULL, example |-> NULL,
     alerts |-> <<>>, shellcheck_directives |-> <<>>,
     is_internal |-> FALSE, is_skipped |-> FALSE]

\* the result of a tag handler: its return value and the Docblock it leaves
Handled(ok, block) == [ok |-> ok, block |-> block]

\* ----------------------------------------------------------- metadata.c
is_file_level_tag(tag) ==
    tag \in {TagName.file, TagName.version, TagName.author, TagName.license, TagName.copyright, TagName.since,
             TagName.description, TagName.package, TagName.module, TagName.link, TagName.repo, TagName.see,
             TagName.env, TagName.skip}

process_file_metadata_tag(docblock, tag, content) ==
    IF tag = TagName.file THEN Handled(TRUE, [docblock EXCEPT !.file_name = content])
    ELSE IF tag = TagName.version THEN Handled(TRUE, [docblock EXCEPT !.version = content])
    ELSE IF tag = TagName.author THEN Handled(TRUE, [docblock EXCEPT !.author = content])
    ELSE IF tag = TagName.since THEN Handled(TRUE, [docblock EXCEPT !.author_contact = content])
    ELSE IF tag = TagName.description THEN Handled(TRUE, [docblock EXCEPT !.description = content])
    ELSE IF tag = TagName.brief THEN Handled(TRUE, [docblock EXCEPT !.brief = content])
    ELSE IF tag = TagName.license THEN Handled(TRUE, [docblock EXCEPT !.license = content])
    ELSE IF tag = TagName.copyright THEN Handled(TRUE, [docblock EXCEPT !.copyright = content])
    ELSE IF tag = TagName.skip THEN Handled(TRUE, [docblock EXCEPT !.is_skipped = TRUE])
    ELSE Handled(FALSE, docblock)

\* parser_engine.c: extract_shebang, called with the newline still in place
extract_shebang(rawline, docblock) ==
    IF HasPrefix(rawline, s_shebang)
    THEN LET after == Drop(rawline, 2)
             n == CHOOSE k \in 0..Len(after) :
                      /\ \A i \in 1..k : after[i] \in {" ", "\t"}
                      /\ At(after, k + 1) \notin {" ", "\t"}
             interpreter == Drop(after, n)
         IN IF Len(interpreter) > 0
            THEN Handled(TRUE, [docblock EXCEPT !.interpreter = interpreter])
            ELSE Handled(FALSE, docblock)
    ELSE Handled(FALSE, docblock)

\* ----------------------------------------------------------- argument.c
\* process_argument_tag with the entry allocated before the name is checked
process_argument_tag_unchecked(docblock, content) ==
    LET arg_str == SkipSpace(content)
        nameLen == SpanNonSpace(arg_str)
        afterName == SkipSpace(Drop(arg_str, nameLen))
        typeLen == SpanNonSpace(afterName)
    IN Handled(nameLen > 0, [docblock EXCEPT !.arguments =
           Append(@, [name |-> IF nameLen > 0 THEN Take(arg_str, nameLen) ELSE NULL,
                      type |-> IF typeLen > 0 THEN Take(afterName, typeLen) ELSE NULL,
                      description |-> SkipSpace(Drop(afterName, typeLen))])])

process_argument_tag(docblock, content) ==
    LET arg_str == SkipSpace(content)
        nameLen == SpanNonSpace(arg_str)
    IN IF nameLen > 0
       THEN LET arg_name == Take(arg_str, nameLen)
                afterName == SkipSpace(Drop(arg_str, nameLen))
                typeLen == SpanNonSpace(afterName)
                arg_type == IF typeLen > 0 THEN Take(afterName, typeLen) ELSE NULL
                arg_desc == SkipSpace(Drop(afterName, typeLen))
            IN Handled(TRUE, [docblock EXCEPT !.arguments =
                   Append(@, [name |-> arg_name, type |-> arg_type,
                              description |-> arg_desc])])
       ELSE Handled(FALSE, docblock)

process_parameter_tag(docblock, content) ==
    LET nameLen == SpanNonSpace(content)
    IN IF nameLen > 0
       THEN Handled(TRUE, [docblock EXCEPT !.params =
                Append(@, [name |-> Take(content, nameLen),
                           description |-> SkipSpace(Drop(content, nameLen))])])
       ELSE Handled(FALSE, docblock)

\* ------------------------------------------------------------- return.c
process_return_tag(docblock, content) ==
    Handled(TRUE, [docblock EXCEPT !.return_desc = content])

process_returns_tag(docblock, content) == process_return_tag(docblock, content)

\* ----------------------------------------------------------- exitcode.c
\* parse_exitcode_content: its return value and the two strings it yields
parse_exitcode_content(content0) ==
    LET content == SkipSpace(content0)
        code_end == strchr(content, " ")
    IN IF Len(content) = 0
       THEN [ok |-> FALSE, code |-> NULL, description |-> NULL]
       ELSE IF code_end = 0
       THEN [ok |-> TRUE, code |-> content, description |-> s_empty]
       ELSE [ok |-> TRUE, code |-> Take(content, code_end - 1),
             description |-> SkipSpace(Drop(content, code_end))]

process_exitcode_tag(docblock, content) ==
    LET parsed == parse_exitcode_content(content)
    IN IF ~parsed.ok THEN Handled(FALSE, docblock)
       ELSE Handled(TRUE, [docblock EXCEPT !.exitcodes =
                Append(@, [code |-> parsed.code,
                           description |-> parsed.description])])

\* -------------------------------------------------------------- alert.c
get_alert_type(tag) ==
    IF tag = TagName.note THEN AlertType.NOTE
    ELSE IF tag = TagName.tip THEN AlertType.TIP
    ELSE IF tag = TagName.important THEN AlertType.IMPORTANT
    ELSE IF tag = TagName.warning THEN AlertType.WARNING
    ELSE IF tag = TagName.caution THEN AlertType.CAUTION
    ELSE IF tag = TagName.info THEN AlertType.INFO
    ELSE IF tag = TagName.danger THEN AlertType.DANGER
    ELSE IF tag = TagName.hint THEN AlertType.TIP
    ELSE AlertType.NOTE

\* process_alert_tag with the array allocated anew for the one entry
process_alert_tag_single(docblock, tag, content) ==
    Handled(TRUE, [docblock EXCEPT !.alerts =
        <<[type |-> get_alert_type(tag), content |-> content]>>])

process_alert_tag(docblock, tag, content) ==
    Handled(TRUE, [docblock EXCEPT !.alerts =
        Append(@, [type |-> get_alert_type(tag), content |-> content])])

\* --------------------------------------------------------- shellcheck.c
extract_shellcheck_directive(line) ==
    LET p == SkipSpace(line)
    IN IF At(p, 1) = "#" THEN SkipSpace(Drop(p, 1)) ELSE p

\* characters of s up to the first whitespace, '#' or the terminator
CodeLen(s) ==
    CHOOSE n \in 0..Len(s) :
        /\ \A i \in 1..n : ~isspace(s[i]) /\ s[i] # "#"
        /\ (n = Len(s) \/ isspace(s[n + 1]) \/ s[n + 1] = "#")

parse_shellcheck_directive(directive) ==
    LET disable_pattern == strstr(directive, s_disable_eq)
        enable_pattern == strstr(directive, s_enable_eq)
        sc_start == IF disable_pattern # 0 THEN disable_pattern + 8
                    ELSE IF enable_pattern # 0 THEN enable_pattern + 7
                    ELSE 0
    IN IF sc_start = 0 THEN [code |-> directive, reason |-> NULL]
       ELSE LET from == Drop(directive, sc_start - 1)
                n == CodeLen(from)
                rest == Drop(from, n)
                hash == strchr(rest, "#")
                reason_start == IF hash = 0 THEN s_empty
                                ELSE SkipSpace(Drop(rest, hash))
            IN [code |-> Take(from, n),
                reason |-> IF hash # 0 /\ Len(reason_start) > 0
                           THEN reason_start ELSE NULL]

add_shellcheck_directive(docblock, directive) ==
    LET parsed == parse_shellcheck_directive(directive)
    IN Handled(TRUE, [docblock EXCEPT !.shellcheck_directives =
           Append(@, [directive |-> directive, code |-> parsed.code,
                      reason |-> parsed.reason])])

process_shellcheck_line(docblock, line) ==
    IF ~is_shellcheck_directive(line) THEN Handled(FALSE, docblock)
    ELSE add_shellcheck_directive(docblock, extract_shellcheck_directive(line))

\* ------------------------------------------------------------ example.c
\* add_example_to_docblock joining with a single newline
add_example_to_docblock_newline(docblock, example_content) ==
    IF docblock.example # NULL
    THEN Handled(TRUE, [docblock EXCEPT !.example =
             string_concat(string_concat(@, s_nl), example_content)])
    ELSE Handled(TRUE, [docblock EXCEPT !.example = example_content])

add_example_to_docblock(docblock, example_content) ==
    IF docblock.example # NULL
    THEN Handled(TRUE, [docblock EXCEPT !.example =
             string_concat(string_concat(@, s_nlnl), example_content)])
    ELSE Handled(TRUE, [docblock EXCEPT !.example = example_content])

\* a line the continuation loops absorb (state.c:115, example.c:193)
IsContinuationLine(line) ==
    is_comment_line(line) /\ ~is_tag_line(line) /\ ~is_special_annotation(line)

\* the result of a collector: the text and the read cursor it leaves
Collected(content, pos) == [content |-> content, pos |-> pos]

\* process_example_tag: f is the file, p the number of lines already read
RECURSIVE process_example_tag(_, _, _)
process_example_tag(f, p, example_content) ==
    IF p >= Len(f) THEN Collected(example_content, p)
    ELSE LET line == f[p + 1] IN
         IF IsContinuationLine(line)
         THEN LET comment_start == Drop(line, strchr(line, "#"))
              IN process_example_tag(f, p + 1,
                     string_concat(string_concat(example_content, s_nl), comment_start))
         ELSE Collected(example_content, p)

\* -------------------------------------------------------------- state.c
\* the collector without the fseek back to the line it stops at
RECURSIVE state_collect_continued_content_norewind(_, _, _)
state_collect_continued_content_norewind(f, p, accumulated_content) ==
    IF p >= Len(f) THEN Collected(accumulated_content, p)
    ELSE LET line == f[p + 1] IN
         IF IsContinuationLine(line)
         THEN LET comment_start == SkipSpace(Drop(line, strchr(line, "#")))
              IN state_collect_continued_content_norewind(f, p + 1,
                     string_concat(string_concat(accumulated_content, s_nl), comment_start))
         ELSE Collected(accumulated_content, p + 1)

RECURSIVE state_collect_continued_content(_, _, _)
state_collect_continued_content(f, p, accumulated_content) ==
    IF p >= Len(f) THEN Collected(accumulated_content, p)
    ELSE LET line == f[p + 1] IN
         IF IsContinuationLine(line)
         THEN LET comment_start == SkipSpace(Drop(line, strchr(line, "#")))
              IN state_collect_continued_content(f, p + 1,
                     string_concat(string_concat(accumulated_content, s_nl), comment_start))
         ELSE Collected(accumulated_content, p)

\* function_tag_name with an empty content treated as no name at all
function_tag_name_null(content) ==
    LET parentheses == strstr(content, s_parens)
    IN IF Len(content) = 0 THEN NULL
       ELSE IF parentheses # 0 /\ parentheses + 1 = Len(content)
       THEN Take(content, parentheses - 1)
       ELSE content

\* the name a `@function` tag gives: the content, a trailing "()" removed
function_tag_name(content) ==
    LET parentheses == strstr(content, s_parens)
    IN IF parentheses # 0 /\ parentheses + 1 = Len(content)
       THEN Take(content, parentheses - 1)
       ELSE content

\* the result of state_process_tag: its return value, the current Docblock,
\* the in_docblock flag and the read cursor it leaves
Processed(ok, block, ind, p) ==
    [ok |-> ok, block |-> block, in_docblock |-> ind, pos |-> p]

\* a handler's result, carried with the flag and the cursor left as they are
WithState(h, ind, p) == Processed(h.ok, h.block, ind, p)

\* add_example_to_docblock on the collected text (state.c:275-278)
AddCollected(block, collected, ind) ==
    WithState(add_example_to_docblock(block, collected.content), ind, collected.pos)

process_example_using_state(block, ind, f, p, content) ==
    AddCollected(block, process_example_tag(f, p, content), ind)

\* the `@description` branch once the continuation is collected (state.c:196-203)
StoreDescription(block, c, ind) ==
    IF block.function_name = NULL
    THEN Processed(TRUE, [block EXCEPT !.description = c.content], ind, c.pos)
    ELSE Processed(TRUE, [block EXCEPT !.function_description = c.content], ind, c.pos)

\* the `@stdout` branch once the continuation is collected (state.c:225-227)
StoreStdout(block, c, ind) ==
    Processed(TRUE, [block EXCEPT !.stdout_doc = c.content], ind, c.pos)

state_process_tag(block, in_docblock, f, p, tag, content) ==
    IF is_file_level_tag(tag)
    THEN WithState(process_file_metadata_tag(block, tag, content), in_docblock, p)
    ELSE IF tag = TagName.function
    THEN Processed(TRUE, [block EXCEPT !.function_name = function_tag_name(content)],
                   TRUE, p)
    ELSE IF tag = TagName.brief
    THEN IF block.function_name = NULL
         THEN Processed(TRUE, [block EXCEPT !.brief = content], in_docblock, p)
         ELSE Processed(TRUE, [block EXCEPT !.function_brief = content], in_docblock, p)
    ELSE IF tag = TagName.description
    THEN StoreDescription(block, state_collect_continued_content(f, p, content),
                          in_docblock)
    ELSE IF tag = TagName.arg \/ tag = TagName.argument
    THEN WithState(process_argument_tag(block, content), in_docblock, p)
    ELSE IF tag = TagName.param
    THEN WithState(process_parameter_tag(block, content), in_docblock, p)
    ELSE IF tag = TagName.return
    THEN WithState(process_return_tag(block, content), in_docblock, p)
    ELSE IF tag = TagName.returns
    THEN WithState(process_returns_tag(block, content), in_docblock, p)
    ELSE IF tag = TagName.exitcode
    THEN WithState(process_exitcode_tag(block, content), in_docblock, p)
    ELSE IF tag = TagName.example
    THEN process_example_using_state(block, in_docblock, f, p, content)
    ELSE IF tag = TagName.stdout
    THEN StoreStdout(block, state_collect_continued_content(f, p, content), in_docblock)
    ELSE IF tag = TagName.stderr
    THEN Processed(TRUE, [block EXCEPT !.stderr_doc = content], in_docblock, p)
    ELSE IF tag = TagName.internal
    THEN Processed(TRUE, [block EXCEPT !.is_internal = TRUE], in_docblock, p)
    ELSE IF tag \in {TagName.note, TagName.warning, TagName.error, TagName.tip, TagName.important, TagName.info,
                     TagName.danger, TagName.hint, TagName.caution, TagName.alert}
    THEN WithState(process_alert_tag(block, tag, content), in_docblock, p)
    ELSE Processed(FALSE, block, in_docblock, p)

\* --------------------------------------------------------------- model.c
\* strstr(docblock->example, "\n\n") != NULL, false without an example
model_has_multiple_examples(docblock) ==
    IF docblock.example = NULL THEN FALSE
    ELSE strstr(docblock.example, s_nlnl) # 0


\* ------------------------------------------------------ parsers/option.c

\* the text between the first '<' of text and the first '>' after it, NULL
\* when either is missing (option.c:106-121, 125-140, 160-184)
BracketSpec(text) ==
    IF strchr(text, "<") = 0 THEN NULL
    ELSE IF strchr(Drop(text, strchr(text, "<") - 1), ">") = 0 THEN NULL
    ELSE SubSeq(Drop(text, strchr(text, "<") - 1), 2,
                strchr(Drop(text, strchr(text, "<") - 1), ">") - 1)

\* the branch of parse_option_content taken when the content holds a '|'
\* (option.c:84-141); content has its leading whitespace removed
PipeOption(content, pipe) ==
    [ok          |-> TRUE,
     option      |-> TrimRight(Take(content, pipe - 1)),
     description |->
         IF strchr(SkipSpace(Drop(content, pipe)), " ") = 0 THEN s_empty
         ELSE Drop(SkipSpace(Drop(content, pipe)),
                   strchr(SkipSpace(Drop(content, pipe)), " ")),
     arg_spec    |->
         IF BracketSpec(TrimRight(Take(content, pipe - 1))) # NULL
         THEN BracketSpec(TrimRight(Take(content, pipe - 1)))
         ELSE BracketSpec(SkipSpace(Drop(content, pipe)))]

\* the argument specifier of an option written without '|' (option.c:160-184)
InlineSpec(option) ==
    IF strchr(option, "=") # 0
    THEN BracketSpec(Drop(option, strchr(option, "=") - 1))
    ELSE BracketSpec(option)

\* the branch of parse_option_content taken when the content holds no '|'
\* (option.c:142-185)
SpaceOption(content, space) ==
    IF space # 0
    THEN [ok          |-> TRUE,
          option      |-> Take(content, space - 1),
          description |-> Drop(content, space),
          arg_spec    |-> InlineSpec(Take(content, space - 1))]
    ELSE [ok          |-> TRUE,
          option      |-> content,
          description |-> s_empty,
          arg_spec    |-> InlineSpec(content)]

\* parse_option_content (option.c:66-188): the return value and the three
\* strings it hands back
parse_option_content(content) ==
    IF content = NULL \/ SkipSpace(content) = s_empty
    THEN [ok |-> FALSE, option |-> NULL, description |-> NULL, arg_spec |-> NULL]
    ELSE IF strchr(SkipSpace(content), "|") # 0
    THEN PipeOption(SkipSpace(content), strchr(SkipSpace(content), "|"))
    ELSE SpaceOption(SkipSpace(content), strchr(SkipSpace(content), " "))

\* the shellscribe_option_t process_option_tag stores (option.c:222-247)
OptionEntry(parsed) ==
    [short_opt   |-> IF At(parsed.option, 2) # "-" THEN parsed.option ELSE NULL,
     long_opt    |-> IF At(parsed.option, 2) = "-" THEN parsed.option ELSE NULL,
     arg_spec    |-> parsed.arg_spec,
     description |-> parsed.description]

\* process_option_tag (option.c:212-251) on the options of a Docblock: the
\* return value and the options afterwards
process_option_tag(options, content) ==
    IF content = NULL \/ ~parse_option_content(content).ok
    THEN [ret |-> FALSE, options |-> options]
    ELSE IF At(parse_option_content(content).option, 1) # "-"
    THEN [ret |-> FALSE, options |-> options]
    ELSE [ret |-> TRUE,
          options |-> Append(options, OptionEntry(parse_option_content(content)))]

\* the pieces the option contents are put together from
O ==
    [dash_v         |-> <<"-", "v">>,
     long           |-> <<"-", "-", "a", "l", "l">>,
     with_arg       |-> <<"-", "o", " ", "<", "f", ">">>,
     eq_arg         |-> <<"-", "o", "=", "<", "f", ">">>,
     bare           |-> <<"v">>,
     pipe_spaced    |-> <<" ", "|", " ">>,
     pipe           |-> <<"|">>,
     space          |-> <<" ">>,
     verbose_output |-> <<"v", "e", "r", "b", "o", "s", "e", " ",
                          "o", "u", "t", "p", "u", "t">>,
     output         |-> <<"o", "u", "t", "p", "u", "t">>,
     arg_then_text  |-> <<"<", "n", ">", " ", "x", " ", "y">>]

\* the contents an @option tag is given
OptionContents ==
    {lead \o name \o sep \o desc :
        lead \in {s_empty, O.space},
        name \in {O.dash_v, O.long, O.with_arg, O.eq_arg, O.bare, s_empty},
        sep  \in {O.pipe_spaced, O.pipe, O.space, s_empty},
        desc \in {O.verbose_output, O.output, O.arg_then_text, s_empty}}

\* no call of process_option_tag
NoOption == [pc |-> "none", content |-> NULL, ret |-> FALSE, options |-> <<>>]

\* -------------------------------------------------- parsers/deprecated.c

\* process_deprecated_tag (deprecated.c:69-90) on the deprecation record of
\* a Docblock
process_deprecated_tag(deprecation, content) ==
    [is_deprecated |-> TRUE,
     version |->
         IF content = NULL \/ content = s_empty THEN deprecation.version
         ELSE IF strstr(content, <<"f", "r", "o", "m">>) # 0
         THEN SkipSpace(Drop(content, strstr(content, <<"f", "r", "o", "m">>) + 3))
         ELSE content]

\* ------------------------------------- the inputs of the grammar functions

\* the pieces the inputs are put together from
G ==
    [from         |-> <<"f", "r", "o", "m">>,
     fro          |-> <<"f", "r", "o">>,
     x_space      |-> <<"x", " ">>,
     a            |-> <<"a">>,
     space        |-> <<" ">>,
     v2_1         |-> <<"2", ".", "1">>,
     v2_1_space   |-> <<"2", ".", "1", " ">>,
     v1           |-> <<"1">>,
     function_sp  |-> <<"f", "u", "n", "c", "t", "i", "o", "n", " ">>,
     foo          |-> <<"f", "o", "o">>,
     foo_dash_bar |-> <<"f", "o", "o", "-", "b", "a", "r">>,
     f_1          |-> <<"f", "_", "1">>,
     parens       |-> <<"(", ")">>,
     paren_open   |-> <<"(">>,
     x_between    |-> <<" ", "x", " ">>,
     brace        |-> <<"{">>,
     hash         |-> <<"#">>,
     hash_space   |-> <<"#", " ">>,
     hash_see     |-> <<"#", " ", "s", "e", "e", " ">>,
     at_brief     |-> <<"@", "b", "r", "i", "e", "f">>,
     brief        |-> <<"b", "r", "i", "e", "f">>,
     at           |-> <<"@">>,
     colon        |-> <<":">>,
     b            |-> <<" ", "b">>]

\* the contents a @deprecated tag is given
DeprecatedContents ==
    {NULL} \cup
    {before \o word \o gap \o version :
        before  \in {s_empty, G.x_space, G.a},
        word    \in {G.from, G.fro, s_empty},
        gap     \in {s_empty, G.space},
        version \in {G.v2_1, G.v2_1_space, s_empty}}

\* lines that are, or nearly are, function declarations
DeclarationCandidates ==
    {lead \o keyword \o name \o parens \o gap \o brace :
        lead    \in {s_empty, G.space},
        keyword \in {G.function_sp, s_function, s_empty},
        name    \in {G.foo, G.foo_dash_bar, G.f_1, s_empty},
        parens  \in {G.parens, G.paren_open, s_empty},
        gap     \in {s_empty, G.space, G.x_between},
        brace   \in {G.brace, s_empty}}

\* lines that are, or nearly are, tag lines
TagCandidates ==
    {lead \o intro \o name \o colon \o content :
        lead    \in {s_empty, G.space},
        intro   \in {G.hash, G.hash_space, G.hash_see, s_empty},
        name    \in {G.at_brief, G.brief, G.at},
        colon   \in {G.colon, s_empty},
        content \in {G.b, s_empty}}

\* the argument of a call: a deprecation record and a tag content, or a line
GrammarArg(deprecation, content, line) ==
    [deprecation |-> deprecation, content |-> content, line |-> line]

\* the calls of the grammar functions: the function and its argument
GrammarInputs ==
    {[fn |-> "process_deprecated_tag",
      arg |-> GrammarArg([is_deprecated |-> FALSE, version |-> v], c, NULL)] :
        v \in {NULL, G.v1}, c \in DeprecatedContents}
    \cup {[fn |-> fn, arg |-> GrammarArg([is_deprecated |-> FALSE, version |-> NULL], NULL, l)] :
            fn \in {"is_tag_line", "is_function_declaration"},
            l \in TagCandidates \cup DeclarationCandidates}

\* no call of a grammar function
NoGrammar == [pc |-> "none", fn |-> "none", out |-> NULL,
              arg |-> GrammarArg([is_deprecated |-> FALSE, version |-> NULL], NULL, NULL)]

\* ---------------------------------------------------------- renderers

\* model_create (model.c:54-77): the name and the flags render_markdown
\* looks at
model_create(blocks, count) ==
    [i \in 0..(count - 1) |->
        IF blocks[i].is_skipped
        THEN [function_name |-> NULL, is_internal |-> FALSE, is_skipped |-> TRUE]
        ELSE [function_name |-> blocks[i].function_name,
              is_internal |-> blocks[i].is_internal, is_skipped |-> FALSE]]

\* render_toc (table_of_content.c:36-67): the Docblocks that get an entry
render_toc(blocks, count, show_toc) ==
    IF show_toc
    THEN {i \in 0..(count - 1) : blocks[i].function_name # NULL}
    ELSE {}

\* the number of write_example calls of the splitting loop of
\* render_examples_efficient (docblock.c:85-101)
RECURSIVE ExamplesSplit(_)
ExamplesSplit(example_start) ==
    IF example_start = s_empty THEN 0
    ELSE IF strstr(example_start, s_nlnl) = 0 THEN 1
    ELSE 1 + ExamplesSplit(Drop(example_start, strstr(example_start, s_nlnl) + 1))

\* render_examples_efficient (docblock.c:72-110): the number of examples
\* written
render_examples_efficient(docblock) ==
    IF docblock.example = NULL THEN 0
    ELSE IF strstr(docblock.example, s_nlnl) # 0
    THEN ExamplesSplit(docblock.example)
    ELSE 1

\* render_markdown (markdown.c:46-147): the index entries, the function
\* sections, and the examples written in each section
render_markdown(blocks, count, show_toc) ==
    [rendered |-> TRUE,
     show_toc |-> show_toc,
     toc      |-> IF count > 0 THEN render_toc(blocks, count, show_toc) ELSE {},
     sections |-> {i \in 0..(count - 1) :
                     /\ ~model_create(blocks, count)[i].is_internal
                     /\ model_create(blocks, count)[i].function_name # NULL},
     examples |-> [i \in 0..(count - 1) |->
                     IF /\ ~model_create(blocks, count)[i].is_internal
                        /\ model_create(blocks, count)[i].function_name # NULL
                     THEN render_examples_efficient(blocks[i])
                     ELSE 0]]

\* nothing rendered
NoDocument ==
    [rendered |-> FALSE, show_toc |-> FALSE, toc |-> {}, sections |-> {},
     examples |-> <<>>]
\* ------------------------------------------------------------ the inputs
\* lines of shell source, written out character by character
L ==
    [shebang |-> <<"#", "!", "/", "b", "i", "n", "/", "s", "h">>,
     function_foo |-> <<"#", " ", "@", "f", "u", "n", "c", "t", "i", "o", "n", " ", "f", "o", "o">>,
     function_bar |-> <<"#", " ", "@", "f", "u", "n", "c", "t", "i", "o", "n", " ", "b", "a", "r", "(", ")">>,
     brief |-> <<"#", " ", "@", "b", "r", "i", "e", "f", " ", "X">>,
     description |-> <<"#", " ", "@", "d", "e", "s", "c", "r", "i", "p", "t", "i", "o", "n", " ", "A">>,
     comment_B |-> <<"#", " ", "B">>,
     decl_foo |-> <<"f", "o", "o", "(", ")", " ", "{">>,
     arg_empty |-> <<"#", " ", "@", "a", "r", "g">>,
     version |-> <<"#", " ", "@", "v", "e", "r", "s", "i", "o", "n", " ", "1">>,
     shellcheck |-> <<"#", " ", "s", "h", "e", "l", "l", "c", "h", "e", "c", "k", " ", "d", "i", "s", "a", "b", "l", "e", "=", "S", "C", "1">>,
     example |-> <<"#", " ", "@", "e", "x", "a", "m", "p", "l", "e", " ", "e">>,
     description_Y |-> <<"#", " ", "@", "d", "e", "s", "c", "r", "i", "p", "t", "i", "o", "n", " ", "Y">>,
     comment_C |-> <<"#", " ", "C">>,
     decl_foo_body |-> <<"f", "o", "o", "(", ")", " ", "{", "}">>,
     colon |-> <<" ", " ", ":">>,
     close |-> <<"}">>,
     blank |-> <<>>,
     arg |-> <<"#", " ", "@", "a", "r", "g", " ", "x", " ", "i", "n", "t", " ", "d">>,
     param |-> <<"#", " ", "@", "p", "a", "r", "a", "m", " ", "p", " ", "q">>,
     return |-> <<"#", " ", "@", "r", "e", "t", "u", "r", "n", " ", "r">>,
     returns |-> <<"#", " ", "@", "r", "e", "t", "u", "r", "n", "s", " ", "r">>,
     exitcode |-> <<"#", " ", "@", "e", "x", "i", "t", "c", "o", "d", "e", " ", "1", " ", "b", "a", "d">>,
     exitcode_empty |-> <<"#", " ", "@", "e", "x", "i", "t", "c", "o", "d", "e">>,
     stdout |-> <<"#", " ", "@", "s", "t", "d", "o", "u", "t", " ", "s">>,
     stderr |-> <<"#", " ", "@", "s", "t", "d", "e", "r", "r", " ", "s">>,
     internal |-> <<"#", " ", "@", "i", "n", "t", "e", "r", "n", "a", "l">>,
     note |-> <<"#", " ", "@", "n", "o", "t", "e", " ", "n">>,
     skip |-> <<"#", " ", "@", "s", "k", "i", "p">>,
     unknown |-> <<"#", " ", "@", "b", "o", "g", "u", "s", " ", "z">>,
     function_kw |-> <<"f", "u", "n", "c", "t", "i", "o", "n", " ", "b", "a", "z", "(", ")", " ", "{">>,
     function_empty |-> <<"#", " ", "@", "f", "u", "n", "c", "t", "i", "o", "n">>,
     colon_tag |-> <<"#", " ", "@", "b", "r", "i", "e", "f", ":", " ", "X">>,
     indented_tag |-> <<" ", " ", "#", " ", "@", "b", "r", "i", "e", "f", " ", "X">>,
     see |-> <<"#", " ", "@", "s", "e", "e", " ", "o", "t", "h", "e", "r">>,
     argument |-> <<"#", " ", "@", "a", "r", "g", "u", "m", "e", "n", "t", " ", "y">>,
     option |-> <<"#", " ", "@", "o", "p", "t", "i", "o", "n", " ", "-", "v", " ", "|", " ", "v", "e", "r", "b", "o", "s", "e", " ", "o", "u", "t", "p", "u", "t">>,
     set |-> <<"#", " ", "@", "s", "e", "t", " ", "X", "=", "1">>,
     env |-> <<"#", " ", "@", "e", "n", "v", " ", "H", "O", "M", "E">>,
     alias |-> <<"#", " ", "@", "a", "l", "i", "a", "s", " ", "f">>,
     section |-> <<"#", " ", "@", "s", "e", "c", "t", "i", "o", "n", " ", "S">>,
     noargs |-> <<"#", " ", "@", "n", "o", "a", "r", "g", "s">>,
     stdin |-> <<"#", " ", "@", "s", "t", "d", "i", "n", " ", "d", "a", "t", "a">>,
     deprecated |-> <<"#", " ", "@", "d", "e", "p", "r", "e", "c", "a", "t", "e", "d", " ", "1", ".", "0">>,
     replacement |-> <<"#", " ", "@", "r", "e", "p", "l", "a", "c", "e", "m", "e", "n", "t", " ", "g">>,
     eol |-> <<"#", " ", "@", "e", "o", "l", " ", "2", "0", "3", "0">>,
     dependency |-> <<"#", " ", "@", "d", "e", "p", "e", "n", "d", "e", "n", "c", "y", " ", "c", "u", "r", "l">>,
     requires |-> <<"#", " ", "@", "r", "e", "q", "u", "i", "r", "e", "s", " ", "b", "a", "s", "h">>,
     used_by |-> <<"#", " ", "@", "u", "s", "e", "d", "-", "b", "y", " ", "h">>,
     calls |-> <<"#", " ", "@", "c", "a", "l", "l", "s", " ", "k">>,
     provides |-> <<"#", " ", "@", "p", "r", "o", "v", "i", "d", "e", "s", " ", "a", "p", "i">>,
     example_second |-> <<"#", " ", "@", "e", "x", "a", "m", "p", "l", "e", " ", "s", "e", "c", "o", "n", "d">>,
     shellcheck_again |-> <<"#", " ", "s", "h", "e", "l", "l", "c", "h", "e", "c", "k", " ", "d", "i", "s", "a", "b", "l", "e", "=", "S", "C", "1", " ", "#", " ", "a", "g", "a", "i", "n">>,
     note_second |-> <<"#", " ", "@", "n", "o", "t", "e", " ", "s", "e", "c", "o", "n", "d">>,
     exitcode_second |-> <<"#", " ", "@", "e", "x", "i", "t", "c", "o", "d", "e", " ", "1", " ", "f", "a", "i", "l", "u", "r", "e">>,
     param_second |-> <<"#", " ", "@", "p", "a", "r", "a", "m", " ", "$", "2", " ", "o", "t", "h", "e", "r">>,
     shellcheck_upper |-> <<"#", " ", "S", "H", "E", "L", "L", "C", "H", "E", "C", "K", " ", "e", "n", "a", "b", "l", "e", "=", "S", "C", "2">>,
     comment_todo |-> <<"#", " ", "T", "O", "D", "O", " ", "t">>,
     comment_empty |-> <<"#">>,
     example_third |-> <<"#", " ", "@", "e", "x", "a", "m", "p", "l", "e", " ", "t", "h", "i", "r", "d">>]

\* the path handed to parse_shell_file
FilePath == <<"a", ".", "s", "h">>

\* the lines the bounded files are built from
Lines == {L.function_foo, L.function_bar, L.brief, L.description,
          L.comment_B, L.decl_foo, L.arg_empty, L.version, L.shellcheck}

\* every file of at most MaxLines lines over Lines
BoundedFiles == UNION {[1..n -> Lines] : n \in 0..MaxLines}

\* the round-trip file of the testable properties
RoundTripFile == <<L.brief, L.description_Y, L.decl_foo, L.colon, L.close>>
\* the continuation-law file of the testable properties
ContinuationFile == <<L.description, L.comment_B, L.comment_C, L.decl_foo_body>>
\* the same, inside a Docblock opened by a `@function` tag
ContinuationInFunctionFile ==
    <<L.function_foo, L.description, L.comment_B, L.comment_C, L.decl_foo_body>>

\* files of the documented tag vocabulary, inside a function Docblock
VocabularyFiles ==
    {<<L.function_foo, L.option, L.set, L.see, L.env, L.alias, L.section,
       L.noargs, L.stdin>>,
     <<L.function_foo, L.deprecated, L.replacement, L.eol, L.dependency,
       L.requires, L.used_by, L.calls, L.provides>>}
\* a description tag repeated, on the file block and on a function block
RepeatedDescriptionFile == <<L.description, L.description_Y>>
RepeatedFunctionDescriptionFile ==
    <<L.function_foo, L.description, L.description_Y>>

\* list-kind tags repeated on one function Docblock
ListFile ==
    <<L.function_foo, L.note, L.note_second, L.exitcode, L.exitcode_second,
      L.param, L.param_second>>

\* two example tags on one function Docblock, the first with a continuation
TwoExamplesFile == <<L.function_foo, L.example, L.comment_B, L.example_second>>

\* shellcheck directives before and inside a function Docblock, two of them
\* with the same code
DirectivesFile ==
    <<L.shellcheck, L.function_foo, L.shellcheck, L.shellcheck_again, L.brief>>
\* a directive in upper case right after an example
UpperDirectiveFile == <<L.function_foo, L.example, L.shellcheck_upper>>

\* files in which a collecting tag is followed by lines that continue it or
\* end it
CollectorFiles ==
    {<<L.function_foo, L.stdout, L.comment_B, L.comment_C, L.decl_foo>>,
     <<L.function_foo, L.example, L.comment_B, L.comment_C, L.decl_foo>>,
     <<L.function_foo, L.description, L.comment_B, L.comment_C, L.decl_foo>>,
     <<L.function_foo, L.stdout, L.comment_todo, L.comment_B>>,
     <<L.function_foo, L.stdout, L.shellcheck, L.comment_B>>,
     <<L.function_foo, L.stdout, L.comment_B, L.shellcheck>>,
     <<L.function_foo, L.example, L.comment_empty, L.comment_B>>,
     <<L.function_foo, L.example, L.example_second, L.comment_B, L.example_third>>,
     <<L.brief, L.function_foo, L.version, L.skip, L.decl_foo>>}

\* further files, one per remaining tag grammar and line shape
ExampleFiles ==
    {RoundTripFile, ContinuationFile, ContinuationInFunctionFile,
     <<L.function_foo, L.arg, L.argument, L.param, L.arg_empty>>,
     <<L.function_foo, L.return, L.returns, L.exitcode, L.exitcode_empty>>,
     <<L.function_foo, L.stdout, L.comment_B, L.stderr, L.internal>>,
     <<L.function_foo, L.note, L.skip, L.unknown, L.see>>,
     <<L.function_foo, L.example, L.comment_B, L.example, L.blank>>,
     <<L.colon_tag, L.indented_tag, L.function_empty, L.function_kw>>,
     <<L.shebang, L.skip, L.blank, L.function_foo, L.brief>>}

Files ==
    BoundedFiles \cup ExampleFiles \cup VocabularyFiles \cup CollectorFiles
        \cup {RepeatedDescriptionFile, RepeatedFunctionDescriptionFile, ListFile,
              TwoExamplesFile, DirectivesFile, UpperDirectiveFile}

\* --------------------------------------------------------------- state
VARIABLES
    file,          \* the content of the file at file_path, a sequence of lines
    max_blocks,    \* the capacity of the docblocks array
    docblocks,     \* the caller's array, indexed 0 .. max_blocks - 1
    pc,            \* where parse_shell_file is: start, metadata, body, done
    handle,        \* state.file: none, open, closed
    pos,           \* the read cursor of state.file, in lines from the start
    line_number,   \* state.line_number
    block_count,   \* block_count
    current_block, \* the index state.current_block points at
    in_docblock,   \* state.in_docblock
    result,        \* the value parse_shell_file returned
    option_call,   \* a call of process_option_tag: its content and outcome
    grammar_call,  \* a call of another grammar function: its argument and outcome
    document,      \* what render_markdown wrote for the parsed file
    parses,        \* several calls of parse_shell_file: each one's arguments and locals
    memory,        \* the statics of memory.c
    pending        \* each call's position inside register_allocation

\* the variables a single call of parse_shell_file leaves alone
callvars == <<parses, memory, pending, option_call, grammar_call>>

vars == <<file, max_blocks, docblocks, pc, handle, pos, line_number,
          block_count, current_block, in_docblock, result, callvars, document>>

\* block_count started at the index of the file block instead of past it
InitialBlockCount_zero == 1 - 1

\* block_count = 1 (parser_engine.c:144)
InitialBlockCount == 1

\* fgets on the file's line p + 1: the line with its newline
fgets(f, p) == Append(f[p + 1], "\n")

\* a read through a Docblock pointer; the code never dereferences a pointer
\* outside the array
BlockAt(blocks, i) == IF i \in DOMAIN blocks THEN blocks[i] ELSE init_docblock
\* a write through a Docblock pointer
StoreBlock(blocks, i, block) ==
    IF i \in DOMAIN blocks THEN [blocks EXCEPT ![i] = block] ELSE blocks

\* the loop guard with an inclusive comparison
LoopContinues_inclusive(f, p, bc, mb) == p < Len(f) /\ bc <= mb

\* while (fgets(...) && block_count < max_blocks) (parser_engine.c:175)
LoopContinues(f, p, bc, mb) == p < Len(f) /\ bc < mb

\* the comparison with its "== 0" left out
FunctionTagOpens_inverted(tag) == tag # TagName.function

\* strcmp(tag, "function") == 0 (parser_engine.c:192)
FunctionTagOpens(tag) == tag = TagName.function

\* &docblocks[++block_count]
CurrentAfterOpen_preincrement(bc) == bc + 1

\* &docblocks[block_count++]: the index the new current block gets
CurrentAfterOpen(bc) == bc

Init ==
    /\ file \in Files
    /\ max_blocks \in 0..MaxBlocks
    /\ docblocks = [i \in 0..(max_blocks - 1) |-> init_docblock]
    /\ pc = "start"
    /\ handle = "none"
    /\ pos = 0
    /\ line_number = 0
    /\ block_count = 0
    /\ current_block = 0
    /\ in_docblock = FALSE
    /\ result = -1
    /\ parses = <<>>
    /\ memory = [memory_tracking_enabled |-> FALSE, allocation_count |-> 0,
                 tracked_allocations |-> <<>>]
    /\ pending = <<>>
    /\ option_call = NoOption
    /\ grammar_call = NoGrammar
    /\ document = NoDocument

\* parse_shell_file up to the first rewind (parser_engine.c:132-147);
\* can_open is whether fopen succeeds
Start ==
    /\ pc = "start"
    /\ \E can_open \in BOOLEAN :
        IF max_blocks <= 0
        THEN /\ pc' = "done"
             /\ result' = 0
             /\ UNCHANGED <<docblocks, handle, pos, line_number, block_count,
                            current_block, in_docblock>>
        ELSE /\ docblocks' = [i \in 0..(max_blocks - 1) |->
                                 IF i = 0
                                 THEN [init_docblock EXCEPT !.file_name = FilePath]
                                 ELSE init_docblock]
             /\ IF can_open
                THEN /\ handle' = "open"
                     /\ block_count' = InitialBlockCount
                     /\ current_block' = 0
                     /\ in_docblock' = FALSE
                     /\ line_number' = 0
                     /\ pos' = 0
                     /\ pc' = "metadata"
                     /\ UNCHANGED result
                ELSE /\ pc' = "done"
                     /\ result' = 0
                     /\ UNCHANGED <<handle, pos, line_number, block_count,
                                    current_block, in_docblock>>
    /\ UNCHANGED <<file, max_blocks, callvars, document>>

\* Docblock[0] after one line of the metadata pre-pass
\* (parser_engine.c:149-168); rawline still ends with its newline
MetadataLine(block0, rawline) ==
    IF HasPrefix(rawline, s_shebang)
    THEN extract_shebang(rawline, block0).block
    ELSE LET metadata_line == Chomp(rawline)
             tag == extract_tag_name(metadata_line)
             content == extract_tag_content(metadata_line)
         IN IF HasPrefix(metadata_line, s_hash_at)
               /\ tag # NULL /\ content # NULL /\ is_file_level_tag(tag)
            THEN process_file_metadata_tag(block0, tag, content).block
            ELSE block0

\* the pre-pass stops at the first line that is neither a shebang, a
\* "# @" line nor a comment (parser_engine.c:169-171)
MetadataBreaks(rawline) ==
    /\ ~HasPrefix(rawline, s_shebang)
    /\ ~HasPrefix(Chomp(rawline), s_hash_at)
    /\ ~is_comment_line(Chomp(rawline))

\* one iteration of the metadata pre-pass, or its end and the rewind
\* (parser_engine.c:148-174)
MetadataStep ==
    /\ pc = "metadata"
    /\ IF pos < Len(file) /\ ~MetadataBreaks(fgets(file, pos))
       THEN /\ docblocks' = StoreBlock(docblocks, 0,
                                MetadataLine(docblocks[0], fgets(file, pos)))
            /\ pos' = pos + 1
            /\ UNCHANGED <<pc, line_number>>
       ELSE /\ pos' = 0
            /\ line_number' = 0
            /\ pc' = "body"
            /\ UNCHANGED docblocks
    /\ UNCHANGED <<file, max_blocks, handle, block_count, current_block,
                   in_docblock, result, callvars, document>>

\* what one iteration of the body loop leaves (parser_engine.c:176-222)
Iterated(blocks, bc, cur, ind, p) ==
    [docblocks |-> blocks, block_count |-> bc, current_block |-> cur,
     in_docblock |-> ind, pos |-> p]

\* state_process_tag has run: its Docblock is stored through current_block
Dispatched(blocks2, bc2, cur2, r) ==
    Iterated(StoreBlock(blocks2, cur2, r.block), bc2, cur2, r.in_docblock, r.pos)

\* state_process_tag on the current Docblock (parser_engine.c:196)
Dispatch(blocks2, bc2, cur2, ind, f, p1, tag, content) ==
    Dispatched(blocks2, bc2, cur2,
               state_process_tag(BlockAt(blocks2, cur2), ind, f, p1, tag, content))

\* a tag line (parser_engine.c:189-199)
TagLine(blocks1, bc, cur, ind, f, p1, tag, content) ==
    IF tag # NULL /\ content # NULL
    THEN IF FunctionTagOpens(tag)
         THEN Dispatch(StoreBlock(blocks1, CurrentAfterOpen(bc), init_docblock),
                       bc + 1, CurrentAfterOpen(bc), ind, f, p1, tag, content)
         ELSE Dispatch(blocks1, bc, cur, ind, f, p1, tag, content)
    ELSE Iterated(blocks1, bc, cur, ind, p1)

\* the current Docblock takes the declared name unless it has one
\* (parser_engine.c:208-217)
Named(blocks2, bc2, cur2, p1, func_name) ==
    Iterated(StoreBlock(blocks2, cur2,
                 IF BlockAt(blocks2, cur2).function_name = NULL
                 THEN [BlockAt(blocks2, cur2) EXCEPT !.function_name = func_name]
                 ELSE BlockAt(blocks2, cur2)),
             bc2, cur2, FALSE, p1)

\* a function declaration line (parser_engine.c:202-218)
DeclarationLine(blocks1, bc, cur, ind, p1, func_name) ==
    IF func_name # NULL
    THEN IF ~ind \/ cur = 0
         THEN Named(StoreBlock(blocks1, CurrentAfterOpen(bc), init_docblock),
                    bc + 1, CurrentAfterOpen(bc), p1, func_name)
         ELSE Named(blocks1, bc, cur, p1, func_name)
    ELSE Iterated(blocks1, bc, cur, ind, p1)

\* a comment line, after the shellcheck test (parser_engine.c:188-219)
CommentLine(blocks1, bc, cur, ind, f, p1, line) ==
    IF is_tag_line(line)
    THEN TagLine(blocks1, bc, cur, ind, f, p1,
                 extract_tag_name(line), extract_tag_content(line))
    ELSE IF is_function_declaration(line)
    THEN DeclarationLine(blocks1, bc, cur, ind, p1, extract_function_name(line))
    ELSE Iterated(blocks1, bc, cur, ind, p1)

\* a shellcheck directive goes to a current Docblock other than Docblock[0]
\* (parser_engine.c:183-187)
AfterShellcheck(blocks, cur, line) ==
    IF is_shellcheck_directive(line) /\ cur # 0
    THEN StoreBlock(blocks, cur,
                    process_shellcheck_line(BlockAt(blocks, cur), line).block)
    ELSE blocks

\* the line is read and its newline removed; p1 is the cursor past it
\* (parser_engine.c:182-222)
Classified(blocks, bc, cur, ind, f, p1, line) ==
    IF is_comment_line(line)
    THEN CommentLine(AfterShellcheck(blocks, cur, line), bc, cur, ind, f, p1, line)
    ELSE Iterated(blocks, bc, cur, FALSE, p1)

BodyLine(blocks, bc, cur, ind, f, p) ==
    Classified(blocks, bc, cur, ind, f, p + 1, Chomp(fgets(f, p)))

\* one iteration of the body loop (parser_engine.c:175-223)
BodyStep ==
    /\ pc = "body"
    /\ LoopContinues(file, pos, block_count, max_blocks)
    /\ \E it \in {BodyLine(docblocks, block_count, current_block, in_docblock,
                           file, pos)} :
          /\ docblocks' = it.docblocks
          /\ block_count' = it.block_count
          /\ current_block' = it.current_block
          /\ in_docblock' = it.in_docblock
          /\ pos' = it.pos
    /\ line_number' = line_number + 1
    /\ UNCHANGED <<file, max_blocks, pc, handle, result, callvars, document>>

\* cleanup_parser_state that leaves the file open
cleanup_parser_state_leak(h) == h

\* cleanup_parser_state: fclose on an open file (state.c:76-81)
cleanup_parser_state(h) == IF h = "open" THEN "closed" ELSE h

\* the loop ends: cleanup_parser_state and the return (parser_engine.c:224-226)
Finish ==
    /\ pc = "body"
    /\ ~LoopContinues(file, pos, block_count, max_blocks)
    /\ handle' = cleanup_parser_state(handle)
    /\ result' = block_count
    /\ pc' = "done"
    /\ UNCHANGED <<file, max_blocks, docblocks, pos, line_number, block_count,
                   current_block, in_docblock, callvars, document>>

\* generate_documentation after the parse (main.c:599-605): render_markdown
\* on the Docblocks of a file that is not skipped (main.c:532); show_toc is
\* the configuration's
Render ==
    /\ pc = "done"
    /\ result > 0
    /\ ~docblocks[0].is_skipped
    /\ ~document.rendered
    /\ \E show_toc \in BOOLEAN :
          document' = render_markdown(docblocks, result, show_toc)
    /\ UNCHANGED <<file, max_blocks, docblocks, pc, handle, pos, line_number,
                   block_count, current_block, in_docblock, result, callvars>>

Next == Start \/ MetadataStep \/ BodyStep \/ Finish \/ Render

Spec == Init /\ [][Next]_vars


\* ------------------------------------------- several calls, and memory.c
\* MAX_TRACKED_ALLOCATIONS, scaled down
MaxTracked == 3

\* the files of the calls that run side by side or in a row
CallFiles ==
    {<<>>,
     <<L.function_foo, L.brief>>,
     <<L.version, L.function_foo>>,
     <<L.function_foo, L.arg_empty, L.function_bar>>,
     <<L.brief, L.decl_foo>>}

\* the array parse_shell_script hands over: shell_calloc, all zero
\* (shellscribe.c:79)
FreshBlocks(mb) == [i \in 0..(mb - 1) |-> init_docblock]

\* the arguments and locals of parse_shell_file at its entry
EntryState(f, mb, blocks) ==
    [file |-> f, max_blocks |-> mb, docblocks |-> blocks, pc |-> "start",
     handle |-> "none", pos |-> 0, line_number |-> 0, block_count |-> 0,
     current_block |-> 0, in_docblock |-> FALSE, result |-> -1]

\* the loop of init_docblock left out: the caller's array is kept as it is
InitialisedBlocks_kept(blocks) == blocks

\* init_docblock on every element of the caller's array (parser_engine.c:135-137)
InitialisedBlocks(blocks) == [i \in DOMAIN blocks |-> init_docblock]

\* docblocks[0].file_name = string_duplicate(file_path) (parser_engine.c:138)
WithFileName(blocks) == [blocks EXCEPT ![0].file_name = FilePath]

\* the locals after one iteration of the body loop
AfterLine(s, it) ==
    [s EXCEPT !.docblocks = it.docblocks, !.block_count = it.block_count,
              !.current_block = it.current_block,
              !.in_docblock = it.in_docblock, !.pos = it.pos,
              !.line_number = @ + 1]

\* one step of parse_shell_file on the locals s, the step Start,
\* MetadataStep, BodyStep or Finish takes; can_open is whether fopen succeeds
ParseStep(s, can_open) ==
    IF s.pc = "start"
    THEN IF s.max_blocks <= 0
         THEN [s EXCEPT !.pc = "done", !.result = 0]
         ELSE IF can_open
         THEN [s EXCEPT !.docblocks =
                           WithFileName(InitialisedBlocks(@)),
                        !.handle = "open", !.block_count = InitialBlockCount,
                        !.pc = "metadata"]
         ELSE [s EXCEPT !.docblocks =
                           WithFileName(InitialisedBlocks(@)),
                        !.pc = "done", !.result = 0]
    ELSE IF s.pc = "metadata"
    THEN IF s.pos < Len(s.file) /\ ~MetadataBreaks(fgets(s.file, s.pos))
         THEN [s EXCEPT !.docblocks =
                           StoreBlock(@, 0, MetadataLine(@[0], fgets(s.file, s.pos))),
                        !.pos = @ + 1]
         ELSE [s EXCEPT !.pos = 0, !.line_number = 0, !.pc = "body"]
    ELSE IF s.pc = "body"
    THEN IF LoopContinues(s.file, s.pos, s.block_count, s.max_blocks)
         THEN AfterLine(s, BodyLine(s.docblocks, s.block_count, s.current_block,
                                    s.in_docblock, s.file, s.pos))
         ELSE [s EXCEPT !.handle = cleanup_parser_state(@),
                        !.result = s.block_count, !.pc = "done"]
    ELSE s

\* the step from s duplicates a string with the tracked allocator: the file
\* path (parser_engine.c:138), the interpreter (parser_engine.c:103) or a
\* tag's content (tag.c:305-324). One call of register_allocation stands for
\* the calls of the step.
Allocating(s) ==
    \/ s.pc = "start" /\ s.max_blocks > 0
    \/ /\ s.pc = "metadata"
       /\ s.pos < Len(s.file)
       /\ \/ HasPrefix(fgets(s.file, s.pos), s_shebang)
          \/ HasPrefix(fgets(s.file, s.pos), s_hash_at)
    \/ /\ s.pc = "body"
       /\ LoopContinues(s.file, s.pos, s.block_count, s.max_blocks)
       /\ is_tag_line(Chomp(fgets(s.file, s.pos)))

\* parse_shell_file run from s to its return, the file opening
RECURSIVE RunParse(_)
RunParse(s) == IF s.pc = "done" THEN s ELSE RunParse(ParseStep(s, TRUE))

\* no call of register_allocation under way
NoCall == [at |-> "none", slot |-> 0, count |-> 0]

\* a call of parse_shell_file takes its next step
Advance(p, s, can_open) ==
    /\ pending[p].at = "none"
    /\ s.pc # "done"
    /\ parses' = [parses EXCEPT ![p] = ParseStep(s, can_open)]
    /\ pending' = [pending EXCEPT ![p] =
                      IF Allocating(s) THEN [NoCall EXCEPT !.at = "find"] ELSE NoCall]
    /\ UNCHANGED memory

\* the free entries of tracked_allocations
FreeSlots == {i \in DOMAIN memory.tracked_allocations :
                 memory.tracked_allocations[i] = 0}

\* register_allocation up to the free entry it finds (memory.c:87-91)
RegisterFind(p) ==
    /\ pending[p].at = "find"
    /\ pending' = [pending EXCEPT ![p] =
          IF ~memory.memory_tracking_enabled \/ FreeSlots = {}
          THEN NoCall
          ELSE [at |-> "store",
                slot |-> CHOOSE i \in FreeSlots : \A j \in FreeSlots : i <= j,
                count |-> memory.allocation_count]]
    /\ UNCHANGED <<parses, memory>>

\* register_allocation fills the entry and counts it (memory.c:92-103)
RegisterStore(p) ==
    /\ pending[p].at = "store"
    /\ memory' = [memory EXCEPT !.tracked_allocations[pending[p].slot] = p,
                                !.allocation_count = pending[p].count + 1]
    /\ pending' = [pending EXCEPT ![p] = NoCall]
    /\ UNCHANGED parses

\* the single call of Spec is not under way
SingleIdle ==
    /\ file = <<>>
    /\ max_blocks = 0
    /\ docblocks = <<>>
    /\ pc = "done"
    /\ handle = "none"
    /\ pos = 0
    /\ line_number = 0
    /\ block_count = 0
    /\ current_block = 0
    /\ in_docblock = FALSE
    /\ result = -1

SingleVars == <<file, max_blocks, docblocks, pc, handle, pos, line_number,
                block_count, current_block, in_docblock, result,
                option_call, grammar_call, document>>

\* the statics of memory.c before any parse; tracking as main.c:430 set it
MemoryInit ==
    \E enabled \in BOOLEAN :
        memory = [memory_tracking_enabled |-> enabled, allocation_count |-> 0,
                  tracked_allocations |-> [i \in 0..(MaxTracked - 1) |-> 0]]

\* two files parsed side by side, each call with an array of its own
ParallelInit ==
    /\ SingleIdle
    /\ document = NoDocument
    /\ option_call = NoOption
    /\ grammar_call = NoGrammar
    /\ \E f1 \in CallFiles, f2 \in CallFiles, mb1 \in {2, MaxBlocks}, mb2 \in {2, MaxBlocks} :
          parses = <<EntryState(f1, mb1, FreshBlocks(mb1)),
                     EntryState(f2, mb2, FreshBlocks(mb2))>>
    /\ MemoryInit
    /\ pending = <<NoCall, NoCall>>

ParallelAdvance ==
    /\ \E p \in DOMAIN parses :
          \E can_open \in (IF parses[p].pc = "start" THEN BOOLEAN ELSE {TRUE}) :
             Advance(p, parses[p], can_open)
    /\ UNCHANGED SingleVars

ParallelFind ==
    /\ \E p \in DOMAIN parses : RegisterFind(p)
    /\ UNCHANGED SingleVars

ParallelStore ==
    /\ \E p \in DOMAIN parses : RegisterStore(p)
    /\ UNCHANGED SingleVars

ParallelNext == ParallelAdvance \/ ParallelFind \/ ParallelStore

ParallelSpec == ParallelInit /\ [][ParallelNext]_vars

\* three parses in a row with one capacity; the caller hands each call the
\* array the call before it has filled
RepeatInit ==
    /\ SingleIdle
    /\ document = NoDocument
    /\ option_call = NoOption
    /\ grammar_call = NoGrammar
    /\ \E f1 \in CallFiles, f2 \in CallFiles, f3 \in CallFiles, mb \in 1..MaxBlocks :
          parses = <<EntryState(f1, mb, FreshBlocks(mb)),
                     EntryState(f2, mb, FreshBlocks(mb)),
                     EntryState(f3, mb, FreshBlocks(mb))>>
    /\ MemoryInit
    /\ pending = <<NoCall, NoCall, NoCall>>

\* the calls before p have returned
InTurn(p) ==
    \A q \in DOMAIN parses :
        q < p => parses[q].pc = "done" /\ pending[q].at = "none"

\* the locals of call p, its array the one the call before has left
Handed(p) ==
    IF p > 1 /\ parses[p].pc = "start"
    THEN [parses[p] EXCEPT !.docblocks = parses[p - 1].docblocks]
    ELSE parses[p]

RepeatAdvance ==
    /\ \E p \in DOMAIN parses :
          \E can_open \in (IF parses[p].pc = "start" THEN BOOLEAN ELSE {TRUE}) :
             InTurn(p) /\ Advance(p, Handed(p), can_open)
    /\ UNCHANGED SingleVars

RepeatFind ==
    /\ \E p \in DOMAIN parses : InTurn(p) /\ RegisterFind(p)
    /\ UNCHANGED SingleVars

RepeatStore ==
    /\ \E p \in DOMAIN parses : InTurn(p) /\ RegisterStore(p)
    /\ UNCHANGED SingleVars

RepeatNext == RepeatAdvance \/ RepeatFind \/ RepeatStore

RepeatSpec == RepeatInit /\ [][RepeatNext]_vars


\* ------------------------------------------- one call of process_option_tag

\* an @option content about to be handed to process_option_tag, the
\* Docblock without options
OptionInit ==
    /\ SingleIdle
    /\ document = NoDocument
    /\ parses = <<>>
    /\ memory = [memory_tracking_enabled |-> FALSE, allocation_count |-> 0,
                 tracked_allocations |-> <<>>]
    /\ pending = <<>>
    /\ grammar_call = NoGrammar
    /\ \E content \in OptionContents :
          option_call = [NoOption EXCEPT !.pc = "call", !.content = content]

\* process_option_tag(docblock, content) runs and returns
ProcessOption ==
    /\ option_call.pc = "call"
    /\ option_call' =
          [pc      |-> "returned",
           content |-> option_call.content,
           ret     |-> process_option_tag(option_call.options, option_call.content).ret,
           options |-> process_option_tag(option_call.options, option_call.content).options]
    /\ UNCHANGED <<file, max_blocks, docblocks, pc, handle, pos, line_number,
                   block_count, current_block, in_docblock, result,
                   parses, memory, pending, grammar_call, document>>

OptionNext == ProcessOption

OptionSpec == OptionInit /\ [][OptionNext]_vars

\* -------------------------------- one call of another grammar function

GrammarInit ==
    /\ SingleIdle
    /\ document = NoDocument
    /\ parses = <<>>
    /\ memory = [memory_tracking_enabled |-> FALSE, allocation_count |-> 0,
                 tracked_allocations |-> <<>>]
    /\ pending = <<>>
    /\ option_call = NoOption
    /\ \E input \in GrammarInputs :
          grammar_call = [pc |-> "call", fn |-> input.fn, arg |-> input.arg,
                          out |-> NULL]

\* the call of grammar_call returns out
GrammarReturns(fn, out) ==
    /\ grammar_call.pc = "call"
    /\ grammar_call.fn = fn
    /\ grammar_call' = [grammar_call EXCEPT !.pc = "returned", !.out = out]
    /\ UNCHANGED <<file, max_blocks, docblocks, pc, handle, pos, line_number,
                   block_count, current_block, in_docblock, result,
                   parses, memory, pending, option_call, document>>

\* process_deprecated_tag(docblock, content) runs and returns
ProcessDeprecated ==
    /\ grammar_call.fn = "process_deprecated_tag"
    /\ GrammarReturns("process_deprecated_tag",
                      process_deprecated_tag(grammar_call.arg.deprecation,
                                             grammar_call.arg.content))

\* is_tag_line(line) runs and returns
ClassifyTag ==
    /\ grammar_call.fn = "is_tag_line"
    /\ GrammarReturns("is_tag_line", is_tag_line(grammar_call.arg.line))

\* is_function_declaration(line) and extract_function_name(line) run and
\* return
ClassifyDeclaration ==
    /\ grammar_call.fn = "is_function_declaration"
    /\ GrammarReturns("is_function_declaration",
                      [accepted |-> is_function_declaration(grammar_call.arg.line),
                       name     |-> extract_function_name(grammar_call.arg.line)])

GrammarNext == ProcessDeprecated \/ ClassifyTag \/ ClassifyDeclaration

GrammarSpec == GrammarInit /\ [][GrammarNext]_vars
\* --------------------------------------------------------- the properties
\* the parse returned after having opened the file
Returned == pc = "done" /\ handle = "closed"

\* the lines of f that the classifier reports as `@function` tag lines
FunctionTagLines(f) ==
    {i \in 1..Len(f) : is_tag_line(f[i]) /\ extract_tag_name(f[i]) = TagName.function}
\* the lines of f that are function declarations
DeclarationLines(f) == {i \in 1..Len(f) : is_function_declaration(f[i])}
\* the i-th element of a set of line numbers, in source order
NthLine(S, i) == CHOOSE n \in S : Cardinality({m \in S : m < n}) = i - 1

\* C1: for a file that can be opened and a capacity max_blocks >= 1,
\* parse_shell_file returns a count >= 1 and Docblock[0] has no function
\* name on return, whatever the lines of the file.
C1_CountAtLeastOne ==
    (Returned /\ max_blocks >= 1) =>
        result >= 1 /\ docblocks[0].function_name = NULL

\* a parse returned several Docblocks: function blocks were opened and
\* named while Docblock[0] stayed unnamed
C1_Witness == Returned /\ max_blocks >= 2 /\ result >= 2

\* C2: a file with N valid function declarations, each preceded by a tag
\* block (here: by a tag line, in a file without `@function` tags), with
\* N + 1 within the capacity, yields exactly N + 1 Docblocks.
C2_DeclarationsCounted ==
    (/\ Returned
     /\ FunctionTagLines(file) = {}
     /\ \A i \in DeclarationLines(file) : i > 1 /\ is_tag_line(file[i - 1])
     /\ Cardinality(DeclarationLines(file)) + 1 <= max_blocks)
    => result = Cardinality(DeclarationLines(file)) + 1

\* the name a `@function` tag line gives: its content, without the "()"
\* that may close it
GivenName(line) ==
    LET c == extract_tag_content(line)
        n == Len(c)
    IN IF n >= 2 /\ c[n - 1] = "(" /\ c[n] = ")"
          /\ \A j \in 1..(n - 2) : ~(c[j] = "(" /\ c[j + 1] = ")")
       THEN SubSeq(c, 1, n - 2)
       ELSE c

\* the body loop is about to read a `@function` tag line
AtFunctionTag ==
    /\ pc = "body"
    /\ pos < Len(file)
    /\ pos + 1 \in FunctionTagLines(file)

\* C3: in the body pass every `@function` tag line opens exactly one new
\* Docblock, current and named by the tag when the line has been handled;
\* a file with k such lines (k + 1 within the capacity) yields k + 1
\* Docblocks and Docblock[i] carries the name of the i-th tag.
C3_FunctionTagOpensBlock ==
    /\ [][(AtFunctionTag /\ pc' = "body") =>
            /\ block_count' = block_count + 1
            /\ current_block' = block_count
            /\ docblocks'[current_block'].function_name = GivenName(file[pos + 1])]_vars
    /\ [](LET k == Cardinality(FunctionTagLines(file))
          IN (Returned /\ k + 1 <= max_blocks) =>
                /\ result = k + 1
                /\ \A i \in 1..k :
                      docblocks[i].function_name =
                          GivenName(file[NthLine(FunctionTagLines(file), i)]))

\* a parse of a file with two `@function` tags returned three Docblocks
C3_Witness ==
    /\ Returned
    /\ Cardinality(FunctionTagLines(file)) = 2
    /\ result = 3
    /\ docblocks[2].function_name # NULL

\* C4: a step of the body pass changes no Docblock but the current one, the
\* one opened most recently (Docblock[0] if none was); a Docblock that a
\* later one has followed is never changed again.
C4_OnlyCurrentMutated ==
    [][pc = "body" =>
         /\ pc' = "body" => current_block' = block_count' - 1
         /\ \A i \in DOMAIN docblocks :
               i # block_count' - 1 => docblocks'[i] = docblocks[i]]_vars

\* Docblock[1] received a tag of its own and Docblock[2] was opened after it
C4_Witness ==
    /\ pc = "body"
    /\ block_count = 3
    /\ docblocks[1].function_brief # NULL
    /\ docblocks[2].function_name # NULL

\* C5: the file "# @brief X", "# @description Y", "foo() {", "  :", "}"
\* yields Docblock[1] with function_name "foo", function_brief "X" and
\* function_description "Y".
C5_RoundTrip ==
    (Returned /\ file = RoundTripFile /\ max_blocks >= 3) =>
        /\ result >= 2
        /\ docblocks[1].function_name = <<"f", "o", "o">>
        /\ docblocks[1].function_brief = <<"X">>
        /\ docblocks[1].function_description = <<"Y">>

\* the text "A\nB\nC"
s_A_B_C == <<"A", "\n", "B", "\n", "C">>

\* C6: "# @description A", "# B", "# C" and a function declaration yield
\* the description "A\nB\nC", in function_description when the current
\* Docblock had a function name at the tag, in description otherwise.
C6_ContinuationLaw ==
    (Returned /\ max_blocks >= 3) =>
        /\ file = ContinuationFile =>
              \E i \in 0..(result - 1) : docblocks[i].description = s_A_B_C
        /\ file = ContinuationInFunctionFile =>
              docblocks[1].function_description = s_A_B_C

\* a file-level field of a Docblock is set
HasFileLevelField(b) ==
    \/ b.file_name # NULL
    \/ b.version # NULL
    \/ b.author # NULL
    \/ b.author_contact # NULL
    \/ b.license # NULL
    \/ b.copyright # NULL
    \/ b.description # NULL
    \/ b.brief # NULL
    \/ b.interpreter # NULL
    \/ b.is_skipped

\* C7: only Docblock[0] carries file-level metadata: after parsing, no
\* Docblock with index >= 1 has a file-level field set.
C7_OnlyFileBlockHasMetadata ==
    Returned => \A i \in 1..(result - 1) : ~HasFileLevelField(docblocks[i])

\* C8: every Docblock of the result with index >= 1 has a non-null
\* function name when parsing returns.
C8_FunctionBlocksNamed ==
    Returned => \A i \in 1..(result - 1) : docblocks[i].function_name # NULL

\* a parse returned a function Docblock opened by a `@function` tag that
\* has no content
C8_Witness ==
    /\ Returned
    /\ result >= 2
    /\ \E i \in FunctionTagLines(file) : Len(extract_tag_content(file[i])) = 0

\* C9: the count never exceeds max_blocks and no Docblock outside the
\* array is made current; at capacity the body pass stops and returns the
\* count, no failure value; the Docblocks closed before keep their contents.
C9_StopsAtCapacity ==
    /\ [](max_blocks >= 1 =>
            /\ block_count <= max_blocks
            /\ current_block < max_blocks
            /\ Returned => result = block_count /\ result >= 1)
    /\ [][(pc = "body" /\ block_count >= max_blocks) =>
            /\ pc' = "done"
            /\ result' = block_count
            /\ docblocks' = docblocks]_vars
    /\ [][pc = "body" =>
            \A i \in 0..(block_count - 2) : docblocks'[i] = docblocks[i]]_vars

\* a parse returned a full array while lines of the file were still unread
C9_Witness ==
    /\ Returned
    /\ max_blocks >= 2
    /\ result = max_blocks
    /\ pos < Len(file)

\* the line the body loop reads next
NextLine == Chomp(fgets(file, pos))

\* a tag line whose grammar requires a field that is missing
MalformedTag(line) ==
    /\ is_tag_line(line)
    /\ extract_tag_name(line) \in {TagName.arg, TagName.argument, TagName.param, TagName.exitcode}
    /\ Len(extract_tag_content(line)) = 0

\* the tag line's handler reports a failure on the current Docblock
TagFails(line) ==
    /\ is_tag_line(line)
    /\ ~FunctionTagOpens(extract_tag_name(line))
    /\ ~state_process_tag(docblocks[current_block], in_docblock, file, pos + 1,
                          extract_tag_name(line), extract_tag_content(line)).ok

\* C10: when a tag grammar fails (as `@arg` with no name does) the Docblocks
\* are left exactly as they were, nothing is reported, and the body pass
\* goes on with the next line.
C10_FailedTagDropped ==
    [][(/\ pc = "body"
        /\ LoopContinues(file, pos, block_count, max_blocks)
        /\ (MalformedTag(NextLine) \/ TagFails(NextLine)))
       => /\ docblocks' = docblocks
          /\ block_count' = block_count
          /\ current_block' = current_block
          /\ pos' = pos + 1
          /\ pc' = "body"
          /\ result' = result
          /\ handle' = handle]_vars

\* the body pass has just dropped a `@arg` without a name inside a function
\* block and has a further line to read
C10_Witness ==
    /\ pc = "body"
    /\ pos >= 1 /\ pos < Len(file)
    /\ file[pos] = L.arg_empty
    /\ current_block >= 1
    /\ docblocks[current_block].arguments = <<>>


\* the tags of the documented vocabulary that C11 lists
Vocabulary ==
    {<<"o", "p", "t", "i", "o", "n">>,
     <<"s", "e", "t">>,
     <<"s", "e", "e">>,
     <<"e", "n", "v">>,
     <<"a", "l", "i", "a", "s">>,
     <<"s", "e", "c", "t", "i", "o", "n">>,
     <<"n", "o", "a", "r", "g", "s">>,
     <<"s", "t", "d", "i", "n">>,
     <<"d", "e", "p", "r", "e", "c", "a", "t", "e", "d">>,
     <<"r", "e", "p", "l", "a", "c", "e", "m", "e", "n", "t">>,
     <<"e", "o", "l">>,
     <<"d", "e", "p", "e", "n", "d", "e", "n", "c", "y">>,
     <<"r", "e", "q", "u", "i", "r", "e", "s">>,
     <<"u", "s", "e", "d", "-", "b", "y">>,
     <<"c", "a", "l", "l", "s">>,
     <<"p", "r", "o", "v", "i", "d", "e", "s">>}

\* the body loop is about to read a tag line of that vocabulary
AtVocabularyTag ==
    /\ pc = "body"
    /\ LoopContinues(file, pos, block_count, max_blocks)
    /\ is_tag_line(NextLine)
    /\ extract_tag_name(NextLine) \in Vocabulary

\* C11: in the body pass a well-formed `@option`, `@set`, `@see`, `@env`,
\* `@alias`, `@section`, `@noargs`, `@stdin`, `@deprecated`, `@replacement`,
\* `@eol`, `@dependency`, `@requires`, `@used-by`, `@calls` or `@provides`
\* tag line is dispatched to its grammar and changes the current Docblock.
C11_VocabularyDispatched ==
    [][AtVocabularyTag => docblocks'[current_block] # docblocks[current_block]]_vars

\* the text "A\nY"
s_A_Y == <<"A", "\n", "Y">>

\* C12: after `@description A` and a later `@description Y` on the same
\* Docblock the stored description holds both, joined by a newline.
C12_DescriptionAppends ==
    Returned =>
        /\ file = RepeatedDescriptionFile => docblocks[0].description = s_A_Y
        /\ (file = RepeatedFunctionDescriptionFile /\ max_blocks >= 3) =>
              \/ docblocks[1].function_description = s_A_Y
              \/ docblocks[1].description = s_A_Y

\* the list-kind fields of a Docblock
ListFields == {"arguments", "params", "exitcodes", "alerts"}

\* the sequence s is the beginning of the sequence t
IsPrefixOf(s, t) == Len(s) <= Len(t) /\ SubSeq(t, 1, Len(s)) = s

\* the list a list-kind tag appends to
ListFieldOf(tag) ==
    IF tag \in {TagName.arg, TagName.argument} THEN "arguments"
    ELSE IF tag = TagName.param THEN "params"
    ELSE IF tag = TagName.exitcode THEN "exitcodes"
    ELSE "alerts"

\* the body loop is about to read a list-kind tag line that its grammar accepts
AtListTag ==
    /\ pc = "body"
    /\ LoopContinues(file, pos, block_count, max_blocks)
    /\ is_tag_line(NextLine)
    /\ extract_tag_name(NextLine) \in
          {TagName.arg, TagName.argument, TagName.param, TagName.exitcode,
           TagName.note, TagName.warning, TagName.error, TagName.tip,
           TagName.important, TagName.info, TagName.danger, TagName.hint,
           TagName.caution, TagName.alert}
    /\ state_process_tag(docblocks[current_block], in_docblock, file, pos + 1,
                         extract_tag_name(NextLine),
                         extract_tag_content(NextLine)).ok

\* C13: list-kind fields are append-only: an accepted `@arg`/`@argument`,
\* `@param`, `@exitcode` or alert tag adds exactly one entry at the end of its
\* sequence, earlier entries keep their value and order, and no sequence of
\* any Docblock ever shrinks.
C13_ListsAppendOnly ==
    /\ [][\A i \in DOMAIN docblocks : \A f \in ListFields :
            IsPrefixOf(docblocks[i][f], docblocks'[i][f])]_vars
    /\ [][AtListTag =>
            \A f \in ListFields :
               Len(docblocks'[current_block][f]) =
                  Len(docblocks[current_block][f])
                     + (IF f = ListFieldOf(extract_tag_name(NextLine)) THEN 1 ELSE 0)]_vars

\* a function Docblock holds two alerts, two exit codes and two parameters
C13_Witness ==
    \E i \in DOMAIN docblocks :
        /\ i >= 1
        /\ Len(docblocks[i].alerts) = 2
        /\ docblocks[i].alerts[1] # docblocks[i].alerts[2]
        /\ Len(docblocks[i].exitcodes) = 2
        /\ Len(docblocks[i].params) = 2

\* the two bodies of TwoExamplesFile joined by the separator
s_two_examples == <<"e", "\n", " ", "B", "\n", "\n", "s", "e", "c", "o", "n", "d">>

\* the body loop is about to read an `@example` tag line
AtExampleTag ==
    /\ pc = "body"
    /\ LoopContinues(file, pos, block_count, max_blocks)
    /\ is_tag_line(NextLine)
    /\ extract_tag_name(NextLine) = TagName.example

\* the text holds two consecutive newlines
HasSeparator(text) ==
    \E k \in 1..(Len(text) - 1) : text[k] = "\n" /\ text[k + 1] = "\n"

\* C14: two `@example` tags on one Docblock yield one example field holding
\* both bodies in source order joined by "\n\n"; has_multiple_examples is
\* true exactly when that separator is present in the example field.
C14_ExamplesJoined ==
    /\ []((Returned /\ file = TwoExamplesFile /\ max_blocks >= 3) =>
              docblocks[1].example = s_two_examples)
    /\ [][(AtExampleTag /\ docblocks[current_block].example # NULL) =>
             docblocks'[current_block].example =
                docblocks[current_block].example \o <<"\n", "\n">>
                   \o process_example_tag(file, pos + 1,
                                          extract_tag_content(NextLine)).content]_vars
    /\ [](\A i \in DOMAIN docblocks :
              model_has_multiple_examples(docblocks[i]) <=>
                 (docblocks[i].example # NULL /\ HasSeparator(docblocks[i].example)))

\* the parse of TwoExamplesFile returned a Docblock with multiple examples
C14_Witness ==
    /\ Returned
    /\ file = TwoExamplesFile
    /\ result = 2
    /\ model_has_multiple_examples(docblocks[1])

\* the shellcheck directive lines among the lines a step has read
DirectivesRead ==
    {n \in (pos + 1)..pos' : is_shellcheck_directive(file[n])}

\* C15: a shellcheck directive line read in the body pass appends exactly
\* one directive record to the current Docblock when that is not
\* Docblock[0] and changes nothing otherwise; Docblock[0] never holds a
\* directive, and directives with the same code are all kept.
C15_DirectiveAppended ==
    /\ [](max_blocks >= 1 => docblocks[0].shellcheck_directives = <<>>)
    /\ [][(pc = "body" /\ LoopContinues(file, pos, block_count, max_blocks)) =>
            /\ IsPrefixOf(docblocks[current_block].shellcheck_directives,
                          docblocks'[current_block].shellcheck_directives)
            /\ current_block # 0 =>
                  Len(docblocks'[current_block].shellcheck_directives) =
                     Len(docblocks[current_block].shellcheck_directives)
                        + Cardinality(DirectivesRead)
            /\ (current_block = 0 /\ DirectivesRead # {}) =>
                  docblocks' = docblocks]_vars

\* C16: the file opened by a parse is closed on every exit path (end of
\* file, stop at capacity, tag failures on the way), and is never read or
\* reopened after it is closed.
C16_HandleClosed ==
    /\ [](pc = "done" => handle \in {"none", "closed"})
    /\ [](pc \in {"metadata", "body"} => handle = "open")
    /\ [][handle = "closed" => (handle' = "closed" /\ pos' = pos)]_vars
    /\ [][(pos' # pos \/ line_number' # line_number) =>
             (handle = "open" \/ pc = "start")]_vars

\* a parse stopped at capacity with lines unread, after a failed tag, and
\* closed the file
C16_Witness ==
    /\ pc = "done"
    /\ handle = "closed"
    /\ pos < Len(file)
    /\ \E n \in 1..pos : file[n] = L.arg_empty

\* C17: no Docblock holds both a non-empty Arguments sequence and a
\* non-empty Parameters sequence, for any mix of `@arg` and `@param` tags.
C17_ArgumentsOrParameters ==
    \A i \in DOMAIN docblocks :
        ~(docblocks[i].arguments # <<>> /\ docblocks[i].params # <<>>)

\* every call has returned
AllReturned ==
    \A p \in DOMAIN parses : parses[p].pc = "done" /\ pending[p].at = "none"

\* C18: two files parsed in parallel share no mutable state: no step of a
\* parse writes a process-wide variable, and every interleaving leaves each
\* parse with the Docblocks it yields when it runs alone.
C18_NoSharedState ==
    /\ [][memory' = memory]_vars
    /\ [](AllReturned =>
             \A p \in DOMAIN parses :
                 parses[p].handle = "closed" =>
                     parses[p] = RunParse(EntryState(parses[p].file,
                                                     parses[p].max_blocks,
                                                     FreshBlocks(parses[p].max_blocks))))

\* C19: parsing the same file twice with the same capacity yields Docblock
\* sequences of the same length that are identical field for field,
\* whatever parse is performed in between.
C19_Idempotent ==
    (/\ AllReturned
     /\ Len(parses) = 3
     /\ parses[1].file = parses[3].file
     /\ parses[1].max_blocks = parses[3].max_blocks
     /\ parses[1].handle = "closed"
     /\ parses[3].handle = "closed")
    => /\ parses[1].result = parses[3].result
       /\ \A i \in 0..(parses[1].result - 1) :
              parses[1].docblocks[i] = parses[3].docblocks[i]

\* a file was parsed twice, with the parse of another file in between that
\* left function Docblocks and file metadata in the array
C19_Witness ==
    /\ AllReturned
    /\ Len(parses) = 3
    /\ parses[1].file = parses[3].file
    /\ parses[2].file # parses[1].file
    /\ parses[1].result >= 2
    /\ parses[3].result >= 2
    /\ parses[2].result >= 2
    /\ parses[2].docblocks[0].version # NULL

\* the content "-v | verbose output"
s_v_pipe_verbose_output == O.dash_v \o O.pipe_spaced \o O.verbose_output

\* C20: the option grammar applied to the content "-v | verbose output"
\* yields option "-v", description "verbose output" and no argument
\* specifier.
C20_PipeOption ==
    (option_call.pc = "returned" /\ option_call.content = s_v_pipe_verbose_output)
    => /\ option_call.ret
       /\ Len(option_call.options) = 1
       /\ option_call.options[1].short_opt = O.dash_v
       /\ option_call.options[1].long_opt = NULL
       /\ option_call.options[1].description = O.verbose_output
       /\ option_call.options[1].arg_spec = NULL

\* the interiors of the angle-bracket pairs of text
BracketInteriors(text) ==
    {SubSeq(text, i + 1, j - 1) :
        <<i, j>> \in {<<a, b>> \in (1..Len(text)) \X (1..Len(text)) :
                        /\ a < b
                        /\ text[a] = "<"
                        /\ text[b] = ">"
                        /\ \A k \in (a + 1)..(b - 1) : text[k] \notin {"<", ">"}}}

\* C21: in both option shapes, whenever an angle-bracket pair appears inside
\* the option token or inside the description, its interior text becomes
\* the option's argument specifier.
C21_BracketsGiveArgSpec ==
    (/\ option_call.pc = "returned"
     /\ option_call.ret
     /\ BracketInteriors(option_call.content) # {})
    => option_call.options[1].arg_spec \in BracketInteriors(option_call.content)

\* process_deprecated_tag has returned
DeprecatedReturned ==
    /\ grammar_call.pc = "returned"
    /\ grammar_call.fn = "process_deprecated_tag"

\* C22: the deprecation grammar always sets is_deprecated; if the content
\* contains `from`, the version becomes everything after it, trimmed;
\* otherwise a non-empty content becomes the version as a whole, and an
\* empty content leaves the version as it was.
C22_DeprecationGrammar ==
    DeprecatedReturned
    => /\ grammar_call.out.is_deprecated
       /\ grammar_call.out.version =
            IF grammar_call.arg.content \in {NULL, s_empty}
            THEN grammar_call.arg.deprecation.version
            ELSE IF strstr(grammar_call.arg.content, G.from) = 0
            THEN grammar_call.arg.content
            ELSE TrimRight(SkipSpace(Drop(grammar_call.arg.content,
                     strstr(grammar_call.arg.content, G.from) + 3)))

\* line is a comment holding `@name:` followed by content
InColonDialect(line) ==
    /\ is_comment_line(line)
    /\ \E i \in 1..Len(line) : \E j \in (i + 2)..Len(line) :
          /\ line[i] = "@"
          /\ line[j] = ":"
          /\ \A k \in (i + 1)..(j - 1) : isalnum(line[k])
          /\ SkipSpace(Drop(line, j)) # s_empty

\* line is a comment of the form `# @name ...`
InSpaceDialect(line) ==
    /\ HasPrefix(SkipSpace(line), s_hash_at)
    /\ isalnum(At(SkipSpace(line), 4))

\* C23: the line classifier reports a comment as a tag line in both
\* dialects: when it has the form `# @name ...` and when it is any comment
\* containing `@name:` followed by content.
C23_BothDialectsAreTagLines ==
    (/\ grammar_call.pc = "returned"
     /\ grammar_call.fn = "is_tag_line"
     /\ InSpaceDialect(grammar_call.arg.line) \/ InColonDialect(grammar_call.arg.line))
    => grammar_call.out = TRUE

\* text is `<name>(...)`, whitespace and `{`, the name of alphanumerics and
\* underscores
IsDeclarationForm(text) ==
    \E open \in 2..Len(text) : \E close \in (open + 1)..Len(text) :
      \E brace \in (close + 1)..Len(text) :
        /\ \A k \in 1..(open - 1) : isalnum(text[k]) \/ text[k] = "_"
        /\ text[open] = "("
        /\ text[close] = ")"
        /\ \A k \in (close + 1)..(brace - 1) : isspace(text[k])
        /\ text[brace] = "{"

\* C24: is_function_declaration accepts a line only if it has the form
\* `function <name>(...) {` or `<name>(...) {`, the name of alphanumerics and
\* underscores and only whitespace between `)` and `{`.
C24_OnlyDeclarationsAccepted ==
    (/\ grammar_call.pc = "returned"
     /\ grammar_call.fn = "is_function_declaration"
     /\ grammar_call.out.accepted)
    => \/ IsDeclarationForm(SkipSpace(grammar_call.arg.line))
       \/ /\ HasPrefix(SkipSpace(grammar_call.arg.line), G.function_sp)
          /\ IsDeclarationForm(SkipSpace(Drop(SkipSpace(grammar_call.arg.line), 9)))

\* the line the body pass is about to read
BodyLineRead == Chomp(fgets(file, pos))

\* the body pass is about to read a tag line whose handler runs a
\* continuation collector
AtCollectingTag ==
    /\ pc = "body"
    /\ LoopContinues(file, pos, block_count, max_blocks)
    /\ is_tag_line(BodyLineRead)
    /\ extract_tag_name(BodyLineRead) \in {TagName.stdout, TagName.example}

\* a comment that is neither a tag line nor a shellcheck directive
PlainComment(line) ==
    is_comment_line(line) /\ ~is_tag_line(line) /\ ~is_shellcheck_directive(line)

\* C25: the Continuation Collector absorbs a following line if and only if
\* it is a comment that is neither a tag line nor a shellcheck directive: it
\* absorbs every such line of the run after the tag and stops only at the
\* first line that is a non-comment, a tag line or a shellcheck directive.
C25_AbsorbsPlainComments ==
    [][AtCollectingTag =>
          /\ \A k \in (pos + 2)..pos' : PlainComment(file[k])
          /\ pos' < Len(file) => ~PlainComment(file[pos' + 1])]_vars

\* C26: when the Continuation Collector stops at a line it does not absorb,
\* the read cursor is back at the start of that line, so the body pass reads
\* it next; every line before it was absorbed and is behind the cursor; a
\* step without a collector consumes exactly the line it reads. So no line
\* of the file is lost or handled twice.
C26_CursorRestored ==
    [][(pc = "body" /\ LoopContinues(file, pos, block_count, max_blocks)) =>
          IF AtCollectingTag
          THEN /\ pos' >= pos + 1
               /\ pos' <= Len(file)
               /\ \A k \in (pos + 2)..pos' : IsContinuationLine(file[k])
               /\ pos' < Len(file) => ~IsContinuationLine(file[pos' + 1])
          ELSE pos' = pos + 1]_vars

\* a collector absorbed a line and stopped at a shellcheck directive, which
\* the body pass then processed once
C26_Witness ==
    /\ file = <<L.function_foo, L.stdout, L.comment_B, L.shellcheck>>
    /\ pc = "done"
    /\ result = 2
    /\ docblocks[1].stdout_doc = <<"s", "\n", "B">>
    /\ Len(docblocks[1].shellcheck_directives) = 1

\* the body pass is about to read a `@description`, `@stdout` or `@example`
\* tag line, the current Docblock without an example
AtContinuedTag ==
    /\ pc = "body"
    /\ LoopContinues(file, pos, block_count, max_blocks)
    /\ is_tag_line(BodyLineRead)
    /\ extract_tag_name(BodyLineRead) \in
          {TagName.description, TagName.stdout, TagName.example}
    /\ BlockAt(docblocks, current_block).example = NULL

\* the text the tag just read has stored in the current Docblock
StoredByTag(tag, block) ==
    IF tag = TagName.stdout THEN block.stdout_doc
    ELSE IF tag = TagName.example THEN block.example
    ELSE IF block.function_name = NULL THEN block.description
    ELSE block.function_description

\* C27: continuation collection has identical semantics at all its call
\* sites: for `@description`, `@stdout` and `@example` alike the same
\* following lines are absorbed, and each absorbed line contributes a newline
\* followed by the text after the `#` with the whitespace after the `#`
\* removed.
C27_OneCollector ==
    [][AtContinuedTag =>
          /\ pos' = state_collect_continued_content(
                        file, pos + 1, extract_tag_content(BodyLineRead)).pos
          /\ StoredByTag(extract_tag_name(BodyLineRead),
                         BlockAt(docblocks', current_block'))
               = state_collect_continued_content(
                        file, pos + 1, extract_tag_content(BodyLineRead)).content]_vars

\* the lines of the file before its first `@function` tag line
BeforeFirstFunction ==
    IF \E k \in 1..Len(file) : file[k] \in {L.function_foo, L.function_bar, L.function_empty}
    THEN SubSeq(file, 1, (CHOOSE k \in 1..Len(file) :
                     /\ file[k] \in {L.function_foo, L.function_bar, L.function_empty}
                     /\ \A j \in 1..(k - 1) :
                           file[j] \notin {L.function_foo, L.function_bar, L.function_empty}) - 1)
    ELSE file

\* C28: Docblock[0] is affected only by the shebang and by the tag lines that
\* precede the first `@function` tag of the file: a `@skip` or `@version`
\* written after a `@function` tag never sets the skip flag or the version
\* of Docblock[0].
C28_FileBlockUntouchedByFunctionTags ==
    (pc = "done" /\ result >= 1)
    => /\ docblocks[0].is_skipped =>
             \E k \in 1..Len(BeforeFirstFunction) : BeforeFirstFunction[k] = L.skip
       /\ docblocks[0].version # NULL =>
             \E k \in 1..Len(BeforeFirstFunction) : BeforeFirstFunction[k] = L.version

\* the `@example` tag lines of the file
ExampleTagLines ==
    {k \in 1..Len(file) :
        is_tag_line(file[k]) /\ extract_tag_name(file[k]) = TagName.example}

\* the file was parsed to its end and rendered, all its tags in the Docblock
\* of its one function
OneFunctionRendered ==
    /\ document.rendered
    /\ Len(file) >= 1
    /\ file[1] = L.function_foo
    /\ max_blocks >= 3
    /\ result = 2
    /\ 1 \in document.sections

\* C29: joining and splitting examples round-trips: a Docblock that received
\* exactly one `@example` tag, with any continuation lines, is not reported
\* as having multiple examples and is rendered as one example, and one that
\* received n >= 2 `@example` tags is split back into exactly n examples.
C29_ExamplesRoundTrip ==
    (OneFunctionRendered /\ ExampleTagLines # {})
    => /\ Cardinality(ExampleTagLines) = 1 =>
             ~model_has_multiple_examples(docblocks[1])
       /\ document.examples[1] = Cardinality(ExampleTagLines)

\* C30: in the rendered document the index and the body agree: a Docblock
\* gets a table-of-contents entry if and only if its function section is
\* rendered.
C30_IndexMatchesBody ==
    (document.rendered /\ document.show_toc)
    => document.toc = document.sections
====
